---- MODULE Spec2Model ----
(***************************************************************************)
(* The relay of the websocket tunnel: the agent registry and the pending-  *)
(* request table (ClientManager), the tunnel message handlers             *)
(* (TunnelWebSocketServer), the dispatcher (HttpProxyHandler) and the HTTP *)
(* ingress (app.use('*'), GET /client/:clientId/health), together with the *)
(* agent's request handler.  The functions a request passes through - the *)
(* mapping resolver, the header filter, the agent's HttpClient and its     *)
(* frame handlers - are specified by CallSpec, one call at a time.         *)
(***************************************************************************)
EXTENDS Integers, Sequences, FiniteSets, TLC

(* ------------------------------ bounds -------------------------------- *)
\* number of headers of a request
MaxHeaders == 2
\* length of the part of a request path after /client/{id}
MaxLen == 4
\* number of tunnel links (WebSocket objects) the relay accepts in a run
NLinks == 2
\* number of HTTP requests (request ids minted by uuidv4) in a run
MaxReqs == 1
\* number of clock steps in a run
MaxTicks == 2
\* milliseconds the clock (Date.now()) advances in one step
ClockStep == 90000

(* ------------------------- program constants -------------------------- *)
requestTimeout == 30000
heartbeatTimeout == 90000

Links == 1..NLinks
ReqIds == 1..MaxReqs
ClientIds == {"a", "b"}
MaxNow == MaxTicks * ClockStep

\* message.clientId of a frame that carries none
NoId == "none"

\* the ids GET /client/{id}/health is called with in a run
HealthIds == {"a"}

(* --------------------------- frame payloads --------------------------- *)
\* HttpResponsePayload as it arrives in a response frame; present = FALSE is
\* a frame without payload (TunnelMessage.payload is optional)
Payload(present, statusCode, headers, body, message) ==
  [present |-> present, statusCode |-> statusCode, headers |-> headers,
   body |-> body, message |-> message]

NoPayload == Payload(FALSE, 0, FALSE, "", "")

\* the responses of the local target the agent forwards (HttpClient.makeRequest)
LocalResponses ==
  { Payload(TRUE, 200, TRUE, "ok", ""),
    Payload(TRUE, 500, TRUE, "local error", "") }

\* the ErrorPayload the agent's request handler sends on an internal failure
AgentError == Payload(TRUE, 0, FALSE, "", "request failed")

\* response payloads a peer can put on the wire
ResponsePayloads ==
  LocalResponses \cup { NoPayload, Payload(TRUE, 200, FALSE, "ok", "") }

\* error payloads a peer can put on the wire
ErrorPayloads == { AgentError, NoPayload }

TunnelMessage(id, type, clientId, payload) ==
  [id |-> id, type |-> type, clientId |-> clientId, payload |-> payload]

(* --------------------------- HTTP responses --------------------------- *)
HttpResponse(status, error, message, body) ==
  [status |-> status, error |-> error, message |-> message, body |-> body]

NoResponse == HttpResponse(0, "", "", "")

VARIABLES
  now,              \* Date.now()
  wsState,          \* readyState of each link's WebSocket at the relay
  clients,          \* ClientManager.clients, in Map insertion order
  pendingRequests,  \* ClientManager.pendingRequests
  timers,           \* the armed timeout timers: request id -> deadline
  nextReq,          \* number of request ids minted so far
  toAgent,          \* request frames delivered to the agent of each link
  toRelay,          \* answer frames the agent of each link has sent
  completed,        \* per request: the calls made to its resolve / reject
  httpResp,         \* per request: what the HTTP caller received
  dispatchedTo,     \* per request: the agent id and link it was dispatched
                    \* to, and the handler that dispatched it
  call,             \* one call of a function of the resolver, the ingress or
                    \* the agent: its name, its arguments and its result
  agent             \* the agent's TunnelWebSocketClient and its timers

vars == <<now, wsState, clients, pendingRequests, timers, nextReq, toAgent,
          toRelay, completed, httpResp, dispatchedTo, call, agent>>

\* the variables of the relay
relayVars == <<now, wsState, clients, pendingRequests, timers, nextReq,
               toAgent, toRelay, completed, httpResp, dispatchedTo>>


(* ------------------- ClientManager: the two tables -------------------- *)
\* The relay's mutable tables, threaded through the ClientManager methods.
RelayState ==
  [clients |-> clients, pending |-> pendingRequests, timers |-> timers,
   completed |-> completed, httpResp |-> httpResp]

\* RegisteredClient, as registerClient builds it. The fields took and
\* dispatched are history fields the program does not have: the link this
\* registration took the id from (0 when the id was free or held by the same
\* link), and the number of requests the dispatcher has handed to this record
RegisteredClient(id, ws, t, took) ==
  [id |-> id, ws |-> ws, connected |-> TRUE, lastHeartbeat |-> t,
   requestCount |-> 0, mappings |-> <<>>, took |-> took, dispatched |-> 0]

\* PendingRequest, as addPendingRequest builds it. The closures resolve and
\* reject belong to the promise of the handler that awaits it: the proxy
\* handler ("proxy") or the health route of an agent ("health")
PendingRequest(id, caller, t) == [id |-> id, caller |-> caller, timestamp |-> t]

\* Map.has / Map.get on clients (at most one entry per key)
IndexOfId(c, id) ==
  IF \E i \in 1..Len(c) : c[i].id = id
  THEN CHOOSE i \in 1..Len(c) : c[i].id = id /\ \A j \in 1..(i - 1) : c[j].id # id
  ELSE 0

HasClient(c, id) == IndexOfId(c, id) # 0

getClient(c, id) == c[IndexOfId(c, id)]

\* the first entry, in iteration order, whose ws is the given link (0: none)
IndexOfWs(c, ws) ==
  IF \E i \in 1..Len(c) : c[i].ws = ws
  THEN CHOOSE i \in 1..Len(c) : c[i].ws = ws /\ \A j \in 1..(i - 1) : c[j].ws # ws
  ELSE 0

\* Map.delete
RemoveAt(c, i) == SubSeq(c, 1, i - 1) \o SubSeq(c, i + 1, Len(c))

\* Map.set: an existing key keeps its place, a new key goes last
MapSet(c, rec) ==
  IF HasClient(c, rec.id)
  THEN [c EXCEPT ![IndexOfId(c, rec.id)] = rec]
  ELSE Append(c, rec)

Without(f, k) == [x \in (DOMAIN f) \ {k} |-> f[x]]

With(f, k, v) == [x \in (DOMAIN f) \cup {k} |-> IF x = k THEN v ELSE f[x]]

\* a catch branch that answers 502
ProxyError_BadGateway(message) == HttpResponse(502, "Proxy error", message, "")

\* what the HTTP caller gets when the dispatcher's promise rejects
\* (the catch branch of the proxy handler)
ProxyError(message) == HttpResponse(500, "Proxy error", message, "")

\* what the HTTP caller gets when the promise resolves with a payload: the
\* handler copies the headers, then the status code and the body; a payload
\* without headers makes Object.entries throw into the catch branch
ProxyResult(payload) ==
  IF payload.headers
  THEN HttpResponse(payload.statusCode, "", "", payload.body)
  ELSE ProxyError("Cannot convert undefined or null to object")

\* what the caller of GET /client/:clientId/health gets when the promise
\* rejects or handleRequestToClient throws: the catch branch of the route
Unhealthy(message) == HttpResponse(503, message, "", "unhealthy")

\* what that caller gets when the promise resolves: the agent's status code
\* with the route's own JSON body
Healthy(payload) == HttpResponse(payload.statusCode, "", "", "healthy")

\* the continuation of the awaiting handler
OnReject(caller, message) ==
  IF caller = "health" THEN Unhealthy(message) ELSE ProxyError(message)

OnResolve(caller, payload) ==
  IF caller = "health" THEN Healthy(payload) ELSE ProxyResult(payload)

\* a promise settles once: later calls of resolve / reject change nothing
Settle(current, outcome) == IF current = NoResponse THEN outcome ELSE current

Call(kind, message) == [kind |-> kind, message |-> message]

rejectRequest(S, requestId, message) ==
  IF requestId \in DOMAIN S.pending
  THEN [S EXCEPT !.timers = Without(@, requestId),
                 !.pending = Without(@, requestId),
                 !.completed[requestId] = Append(@, Call("reject", message)),
                 !.httpResp[requestId] =
                    Settle(@, OnReject(S.pending[requestId].caller, message))]
  ELSE S

\* a resolveRequest that completes the oldest pending request, whatever id the
\* frame carries
resolveRequest_OldestPending(S, requestId, response) ==
  IF DOMAIN S.pending # {}
  THEN LET r == CHOOSE x \in DOMAIN S.pending :
                  \A y \in DOMAIN S.pending : x <= y
       IN [S EXCEPT !.timers = Without(@, r),
                    !.pending = Without(@, r),
                    !.completed[r] = Append(@, Call("resolve", "")),
                    !.httpResp[r] =
                       Settle(@, OnResolve(S.pending[r].caller, response))]
  ELSE S

\* a frame without payload makes "response.duration = ..." throw after the
\* timer is cleared and the entry deleted, before request.resolve is called
resolveRequest(S, requestId, response) ==
  IF requestId \in DOMAIN S.pending
  THEN IF response.present
       THEN [S EXCEPT !.timers = Without(@, requestId),
                      !.pending = Without(@, requestId),
                      !.completed[requestId] = Append(@, Call("resolve", "")),
                      !.httpResp[requestId] =
                         Settle(@, OnResolve(S.pending[requestId].caller,
                                             response))]
       ELSE [S EXCEPT !.timers = Without(@, requestId),
                      !.pending = Without(@, requestId)]
  ELSE S

RECURSIVE RejectEach(_, _, _)
RejectEach(S, ids, message) ==
  IF ids = {} THEN S
  ELSE LET r == CHOOSE x \in ids : \A y \in ids : x <= y
       IN RejectEach(rejectRequest(S, r, message), ids \ {r}, message)

\* rejects every pending request, whatever agent it was dispatched to
rejectRequestsForClient(S, clientId) ==
  RejectEach(S, DOMAIN S.pending, "Client disconnected")

\* an unregisterClient that marks the record and leaves it in the map
unregisterClient_MarksOnly(S, ws) ==
  LET i == IndexOfWs(S.clients, ws)
  IN IF i = 0 THEN S
     ELSE rejectRequestsForClient(
            [S EXCEPT !.clients[i].connected = FALSE], S.clients[i].id)

\* the first record bound to the link is marked, then deleted
unregisterClient(S, ws) ==
  LET i == IndexOfWs(S.clients, ws)
  IN IF i = 0 THEN S
     ELSE rejectRequestsForClient(
            [S EXCEPT !.clients =
               RemoveAt([@ EXCEPT ![i].connected = FALSE], i)],
            S.clients[i].id)

\* a registerClient that adds the new record without the cleanup and without
\* replacing the one stored under the id
registerClient_NoCleanup(S, clientId, ws, t) ==
  [S EXCEPT !.clients = Append(@, RegisteredClient(clientId, ws, t, 0))]

registerClient(S, clientId, ws, t) ==
  LET S1 == IF HasClient(S.clients, clientId)
            THEN unregisterClient(S, getClient(S.clients, clientId).ws)
            ELSE S
      took == IF HasClient(S.clients, clientId)
                 /\ getClient(S.clients, clientId).ws # ws
              THEN getClient(S.clients, clientId).ws
              ELSE 0
  IN [S1 EXCEPT !.clients = MapSet(@, RegisteredClient(clientId, ws, t, took))]

getConnectedClients(c) == SelectSeq(c, LAMBDA rec : rec.connected)

\* reduce over the connected clients: a later client wins only with a
\* strictly smaller requestCount
RECURSIVE LeastLoaded(_, _, _)
LeastLoaded(c, i, min) ==
  IF i > Len(c) THEN min
  ELSE LeastLoaded(c, i + 1,
                   IF c[i].requestCount < min.requestCount THEN c[i] ELSE min)

\* a getAvailableClient that takes the last of the least loaded clients
getAvailableClient_LastOfLeast(c) ==
  LET cc == getConnectedClients(c)
      least == LeastLoaded(cc, 2, cc[1])
      last == CHOOSE i \in 1..Len(cc) :
                /\ cc[i].requestCount = least.requestCount
                /\ \A j \in (i + 1)..Len(cc) :
                     cc[j].requestCount # least.requestCount
  IN cc[last]

\* defined when some client is connected
getAvailableClient(c) ==
  LET cc == getConnectedClients(c) IN LeastLoaded(cc, 2, cc[1])

updateHeartbeat(S, clientId, t) ==
  IF HasClient(S.clients, clientId)
  THEN [S EXCEPT !.clients[IndexOfId(S.clients, clientId)].lastHeartbeat = t]
  ELSE S

\* the ids collected in the first loop of checkHeartbeats
deadClients(c, t) ==
  SelectSeq([i \in 1..Len(c) |-> c[i]],
            LAMBDA rec : t - rec.lastHeartbeat > heartbeatTimeout)

RECURSIVE RemoveDead(_, _, _)
RemoveDead(S, dead, k) ==
  IF k > Len(dead) THEN S
  ELSE RemoveDead(
         IF HasClient(S.clients, dead[k].id)
         THEN unregisterClient(S, getClient(S.clients, dead[k].id).ws)
         ELSE S,
         dead, k + 1)

checkHeartbeats(S, t) == RemoveDead(S, deadClients(S.clients, t), 1)

\* an addPendingRequest that leaves the record's requestCount as it is
addPendingRequest_NoCount(S, requestId, clientId, caller, t) ==
  [S EXCEPT !.timers = With(@, requestId, t + requestTimeout),
            !.pending = With(@, requestId, PendingRequest(requestId, caller, t))]

\* an addPendingRequest whose timer is armed without the delay
addPendingRequest_NoDelay(S, requestId, clientId, caller, t) ==
  LET S1 == IF HasClient(S.clients, clientId)
            THEN [S EXCEPT
                    !.clients[IndexOfId(S.clients, clientId)].requestCount = @ + 1]
            ELSE S
  IN [S1 EXCEPT !.timers = With(@, requestId, t),
                !.pending = With(@, requestId, PendingRequest(requestId, caller, t))]

addPendingRequest(S, requestId, clientId, caller, t) ==
  LET S1 == IF HasClient(S.clients, clientId)
            THEN [S EXCEPT
                    !.clients[IndexOfId(S.clients, clientId)].requestCount = @ + 1]
            ELSE S
  IN [S1 EXCEPT !.timers = With(@, requestId, t + requestTimeout),
                !.pending = With(@, requestId, PendingRequest(requestId, caller, t))]

\* writes the tables back
Commit(S) ==
  /\ clients' = S.clients
  /\ pendingRequests' = S.pending
  /\ timers' = S.timers
  /\ completed' = S.completed
  /\ httpResp' = S.httpResp


(* ------------------------------ messages ------------------------------ *)
\* the payload of a request frame (method, path, headers, body, query): the
\* relay's tables do not depend on its content
HttpRequestPayload == Payload(TRUE, 0, TRUE, "", "")

\* ws.send on the relay's side of a link: the frame reaches the agent when
\* the socket is OPEN and is dropped otherwise
WsSend(l, frame) ==
  toAgent' = IF wsState[l] = "OPEN"
             THEN [toAgent EXCEPT ![l] = @ \cup {frame}]
             ELSE toAgent

\* TunnelWebSocketClient.sendResponse / sendError: the answer frame carries
\* the id of the request it answers
sendResponse(requestId, response) ==
  TunnelMessage(requestId, "response", NoId, response)

sendError(requestId, error) ==
  TunnelMessage(requestId, "error", NoId, error)

\* the response and error frames a peer can send, beside those in flight:
\* any payload under the id of a minted request, and a frame under id 0,
\* which stands for an id that names no request
PeerFrames(type) ==
  { TunnelMessage(r, type, NoId, p) :
      r \in 1..nextReq,
      p \in IF type = "response" THEN ResponsePayloads ELSE ErrorPayloads }
  \cup { TunnelMessage(0, type, NoId, NoPayload) }

\* ws.on('message') of link l: the frames the relay can be handed
Inbound(l, type) == {m \in toRelay[l] : m.type = type} \cup PeerFrames(type)

\* message.payload?.message || 'Client error'
ErrorMessage(payload) ==
  IF payload.present /\ payload.message # "" THEN payload.message
  ELSE "Client error"

NotFoundMessage(clientId) ==
  IF clientId = "a" THEN "Client 'a' not found" ELSE "Client 'b' not found"

NotConnectedMessage(clientId) ==
  IF clientId = "a" THEN "Client 'a' is not connected"
  ELSE "Client 'b' is not connected"

NotDispatched == [clientId |-> NoId, ws |-> 0, caller |-> "none"]

(* ----------------- strings: sequences of characters ------------------- *)
\* String.prototype.startsWith
startsWith(s, p) == Len(p) <= Len(s) /\ SubSeq(s, 1, Len(p)) = p

\* String.prototype.substring(n)
substring(s, n) == SubSeq(s, n + 1, Len(s))

Slash == <<"/">>

\* the literal "/client/" of the route pattern
ClientLit == <<"/", "c", "l", "i", "e", "n", "t", "/">>

\* the position of the first "/" of s at or after i, Len(s) + 1 when none
RECURSIVE FirstSlash(_, _)
FirstSlash(s, i) ==
  IF i > Len(s) \/ s[i] = "/" THEN i ELSE FirstSlash(s, i + 1)

(* ---------------- HttpProxyHandler: the mapping resolver --------------- *)
NoMatch == [matched |-> FALSE, id |-> <<>>, rest |-> <<>>]

\* path.match(/^\/client\/([^\/]+)(\/.*)?$/): group 1 is the longest run of
\* characters other than "/" after the literal, group 2 is what follows it
clientRouteMatch(path) ==
  IF startsWith(path, ClientLit)
  THEN LET k == FirstSlash(path, Len(ClientLit) + 1)
       IN IF k > Len(ClientLit) + 1
          THEN [matched |-> TRUE,
                id |-> SubSeq(path, Len(ClientLit) + 1, k - 1),
                rest |-> SubSeq(path, k, Len(path))]
          ELSE NoMatch
  ELSE NoMatch

\* ClientMapping
ClientMapping(prefix, target) == [prefix |-> prefix, target |-> target]

\* null, and the absent field mapping of a RouteInfo
NoMapping == ClientMapping(<<>>, "none")

\* the filter of findBestMapping
prefixFilter(cleanPath, m) ==
  \/ startsWith(cleanPath, m.prefix \o Slash)
  \/ cleanPath = m.prefix
  \/ startsWith(cleanPath, m.prefix)

\* one step of the stable sort: m goes behind every mapping whose prefix is
\* at least as long
RECURSIVE InsertByLength(_, _)
InsertByLength(sorted, m) ==
  IF sorted = <<>> THEN <<m>>
  ELSE IF Len(Head(sorted).prefix) >= Len(m.prefix)
       THEN <<Head(sorted)>> \o InsertByLength(Tail(sorted), m)
       ELSE <<m>> \o sorted

\* Array.prototype.sort((a, b) => b.prefix.length - a.prefix.length)
RECURSIVE sortByPrefixLength(_)
sortByPrefixLength(ms) ==
  IF ms = <<>> THEN <<>>
  ELSE InsertByLength(sortByPrefixLength(SubSeq(ms, 1, Len(ms) - 1)),
                      ms[Len(ms)])

\* a findBestMapping that returns the first mapping that passes the filter
findBestMapping_FirstInTable(path, mappings) ==
  LET cleanPath == IF startsWith(path, Slash) THEN substring(path, 1) ELSE path
      filtered == SelectSeq(mappings, LAMBDA m : prefixFilter(cleanPath, m))
  IN IF filtered = <<>> THEN NoMapping ELSE filtered[1]

findBestMapping(path, mappings) ==
  LET cleanPath == IF startsWith(path, Slash) THEN substring(path, 1) ELSE path
      sortedMappings ==
        sortByPrefixLength(
          SelectSeq(mappings, LAMBDA m : prefixFilter(cleanPath, m)))
  IN IF sortedMappings = <<>> THEN NoMapping ELSE sortedMappings[1]

\* a stripMappingPrefix that leaves the prefix in the path
stripMappingPrefix_KeepsPrefix(path, prefix) == path

stripMappingPrefix(path, prefix) ==
  LET cleanPath == IF startsWith(path, Slash) THEN substring(path, 1) ELSE path
  IN IF startsWith(cleanPath, prefix)
     THEN LET remaining == substring(cleanPath, Len(prefix))
          IN IF startsWith(remaining, Slash) THEN remaining
             ELSE Slash \o remaining
     ELSE path

RouteInfo(clientId, targetPath, routeType, mapping) ==
  [clientId |-> clientId, targetPath |-> targetPath, routeType |-> routeType,
   mapping |-> mapping]

\* a parseRoute without the "|| '/'" on the remainder
parseRoute_EmptyRemainder(path, c) ==
  LET m == clientRouteMatch(path) IN
  IF m.matched
  THEN LET remainingPath == m.rest
           mapping ==
             IF HasClient(c, m.id) /\ Len(getClient(c, m.id).mappings) > 0
             THEN findBestMapping(remainingPath, getClient(c, m.id).mappings)
             ELSE NoMapping
       IN IF mapping # NoMapping
          THEN RouteInfo(m.id, stripMappingPrefix(remainingPath, mapping.prefix),
                         "specific", mapping)
          ELSE RouteInfo(m.id, remainingPath, "specific", NoMapping)
  ELSE RouteInfo(<<>>, path, "balanced", NoMapping)

\* c is the registry the resolver looks the agent up in
parseRoute(path, c) ==
  LET m == clientRouteMatch(path) IN
  IF m.matched
  THEN LET remainingPath == IF m.rest = <<>> THEN Slash ELSE m.rest
           mapping ==
             IF HasClient(c, m.id) /\ Len(getClient(c, m.id).mappings) > 0
             THEN findBestMapping(remainingPath, getClient(c, m.id).mappings)
             ELSE NoMapping
       IN IF mapping # NoMapping
          THEN RouteInfo(m.id, stripMappingPrefix(remainingPath, mapping.prefix),
                         "specific", mapping)
          ELSE RouteInfo(m.id, remainingPath, "specific", NoMapping)
  ELSE RouteInfo(<<>>, path, "balanced", NoMapping)

\* the fields path and targetMapping of the request payload handleRequest
\* builds from the route ("none": the frame carries no targetMapping)
requestPayloadOf(route) ==
  [path |-> route.targetPath, targetMapping |-> route.mapping.target]

(* ---------------- HttpProxyHandler: sanitizeHeaders ------------------- *)
\* skipHeaders
skipHeaders ==
  {"host", "connection", "upgrade", "sec-websocket-key",
   "sec-websocket-version", "sec-websocket-extensions", "x-forwarded-for",
   "x-forwarded-proto", "x-forwarded-host"}

\* String.prototype.toLowerCase on the header names of the model
toLowerCase(key) ==
  IF key = "Host" THEN "host"
  ELSE IF key = "X-Forwarded-For" THEN "x-forwarded-for"
  ELSE IF key = "Accept" THEN "accept"
  ELSE key

\* a header value: a string, an array of strings, or undefined; a string is
\* the sequence of its pieces
StringValue(str) == [kind |-> "string", items |-> <<str>>]

ArrayValue(items) == [kind |-> "array", items |-> items]

UndefinedValue == [kind |-> "undefined", items |-> <<>>]

\* Array.prototype.join(', ')
RECURSIVE join(_)
join(items) ==
  IF items = <<>> THEN <<>>
  ELSE IF Len(items) = 1 THEN <<Head(items)>>
  ELSE <<Head(items), ", ">> \o join(Tail(items))

\* Array.isArray(value) ? value.join(', ') : String(value)
toHeaderString(value) ==
  IF value.kind = "array" THEN join(value.items) ELSE value.items

\* obj[key] = value on an object kept as the list of its entries
ObjectSet(obj, key, value) ==
  IF \E i \in 1..Len(obj) : obj[i].key = key
  THEN [i \in 1..Len(obj) |->
          IF obj[i].key = key THEN [key |-> key, value |-> value] ELSE obj[i]]
  ELSE Append(obj, [key |-> key, value |-> value])

\* a sanitizeHeaders that compares the names as they are written
RECURSIVE sanitizeHeaders_CaseSensitive(_)
sanitizeHeaders_CaseSensitive(headers) ==
  IF headers = <<>> THEN <<>>
  ELSE LET rest == sanitizeHeaders_CaseSensitive(
                     SubSeq(headers, 1, Len(headers) - 1))
           e == headers[Len(headers)]
       IN IF e.key \notin skipHeaders /\ e.value.kind # "undefined"
          THEN ObjectSet(rest, e.key, toHeaderString(e.value))
          ELSE rest

\* the forEach over Object.entries(headers), in order
RECURSIVE sanitizeHeaders(_)
sanitizeHeaders(headers) ==
  IF headers = <<>> THEN <<>>
  ELSE LET rest == sanitizeHeaders(SubSeq(headers, 1, Len(headers) - 1))
           e == headers[Len(headers)]
           lowerKey == toLowerCase(e.key)
       IN IF lowerKey \notin skipHeaders /\ e.value.kind # "undefined"
          THEN ObjectSet(rest, e.key, toHeaderString(e.value))
          ELSE rest

(* ------------------- the agent: HttpClient, handlers ------------------ *)
\* a field of a request payload that is not there
Undefined == <<"undefined">>

\* HttpRequestPayload with the fields the agent's HttpClient reads; query is
\* the list of the entries of the query object
RequestPayload(path, query, targetMapping) ==
  [present |-> TRUE, path |-> path, query |-> query,
   targetMapping |-> targetMapping]

\* CONFIG.LOCAL_TARGET, here with a trailing slash
LOCAL_TARGET == <<"http://localhost:8080", "/">>

\* new HttpClient(baseUrl): its baseUrl, the trailing slash removed
HttpClient(baseUrl) ==
  IF baseUrl # <<>> /\ baseUrl[Len(baseUrl)] = "/"
  THEN SubSeq(baseUrl, 1, Len(baseUrl) - 1)
  ELSE baseUrl

\* the map httpClients of an agent configured with the given mapping targets
httpClients(targets) ==
  [k \in {"default"} \cup targets |->
     IF k = "default" THEN HttpClient(LOCAL_TARGET) ELSE HttpClient(<<k>>)]

\* a getHttpClientForRequest that never looks at the annotation
getHttpClientForRequest_AlwaysDefault(payload, targets) ==
  HttpClient(LOCAL_TARGET)

getHttpClientForRequest(payload, targets) ==
  IF payload.targetMapping # "none"
     /\ payload.targetMapping \in DOMAIN httpClients(targets)
  THEN httpClients(targets)[payload.targetMapping]
  ELSE HttpClient(LOCAL_TARGET)

\* URLSearchParams.toString() of the entries appended in order
RECURSIVE searchParams(_)
searchParams(query) ==
  IF query = <<>> THEN <<>>
  ELSE <<Head(query).key, "=", Head(query).value>>
       \o (IF Len(query) > 1 THEN <<"&">> ELSE <<>>)
       \o searchParams(Tail(query))

\* HttpClient.buildUrl, for a path that is a string
buildUrl(baseUrl, path, query) ==
  LET normalizedPath == IF startsWith(path, Slash) THEN path ELSE Slash \o path
  IN baseUrl \o normalizedPath
       \o (IF Len(query) > 0 THEN <<"?">> \o searchParams(query) ELSE <<>>)

\* the response makeRequest returns from its catch branch
ServiceUnavailable == Payload(TRUE, 503, TRUE, "Service Unavailable", "")

\* what fetch does: it returns the local target's response, it is aborted by
\* the timeout, or it fails at the transport
FetchOutcomes ==
  { [kind |-> "completed", response |-> r] : r \in LocalResponses }
  \cup { [kind |-> "aborted", response |-> NoPayload],
         [kind |-> "failed", response |-> NoPayload] }

\* HttpClient.makeRequest: buildUrl runs before the try and throws on a path
\* that is not a string; whatever fetch throws becomes a 503 response
makeRequest(baseUrl, payload, outcome) ==
  IF payload.path = Undefined
  THEN [threw |-> TRUE, url |-> <<>>, response |-> NoPayload]
  ELSE [threw |-> FALSE,
        url |-> buildUrl(baseUrl, payload.path, payload.query),
        response |-> IF outcome.kind = "completed" THEN outcome.response
                     ELSE ServiceUnavailable]

\* TunnelWebSocketClient.sendMessage: the frames that go out
sendMessage(open, frame) == IF open THEN <<frame>> ELSE <<>>

\* the handler the agent registers with wsClient.onRequest, run on a request
\* frame. A frame without payload makes payload.targetMapping throw before
\* the try: the promise rejects unhandled and the process exits
onRequest(frame, targets, outcome, open) ==
  IF ~frame.payload.present
  THEN [sent |-> <<>>, exited |-> TRUE, base |-> <<>>, url |-> <<>>]
  ELSE LET httpClient == getHttpClientForRequest(frame.payload, targets)
           r == makeRequest(httpClient, frame.payload, outcome)
       IN [sent |-> IF r.threw
                    THEN sendMessage(open, sendError(frame.id, AgentError))
                    ELSE sendMessage(open, sendResponse(frame.id, r.response)),
           exited |-> FALSE, base |-> httpClient, url |-> r.url]

\* a handleHeartbeat that answers under an id of its own
agentHandleHeartbeat_OwnId(message, clientId, open) ==
  sendMessage(open, TunnelMessage(0, "heartbeat", clientId, NoPayload))

\* TunnelWebSocketClient.handleHeartbeat of the agent: the frames it sends
agentHandleHeartbeat(message, clientId, open) ==
  sendMessage(open, TunnelMessage(message.id, "heartbeat", clientId, NoPayload))

(* ------------- the agent's link: TunnelWebSocketClient ---------------- *)
\* CONFIG.RECONNECT_INTERVAL and CONFIG.HEARTBEAT_INTERVAL, in ms
reconnectInterval == 5000
heartbeatInterval == 30000

\* the time that passes in one step of the agent's clock: that of the
\* shorter timer
AgentClockStep == reconnectInterval

\* the number of unanswered heartbeats that is counted
MaxMissed == 2

\* config.clientId of the agent
configClientId == "a"

\* the id uuidv4() gives to a frame: one that names no request
Uuid == 99

\* the id uuidv4() gives to a client that registers without one
MintedId == "uuid"

\* the payload of a register frame of the relay, and of the agent
RegisterPayload(confirmed) == [present |-> TRUE, confirmed |-> confirmed]
RegistrationPayload == [present |-> TRUE, name |-> "agent", mappings |-> <<>>]

\* message.payload?.confirmed
confirmedOf(message) ==
  /\ message.payload.present
  /\ "confirmed" \in DOMAIN message.payload
  /\ message.payload.confirmed

\* a TunnelWebSocketClient after construction, with the timers of its event
\* loop (the time each has left), the frames its last step sent, and its
\* surroundings: whether the server URL is well formed, whether a dial
\* reaches the relay, the heartbeats sent since the last pong, the parity of
\* the number of dials, whether a socket that this.ws no longer refers to
\* has its 'close' event still to come, and whether disconnect() was called
NewClient(validUrl) ==
  [ws |-> "null", isConnected |-> FALSE, isRegistered |-> FALSE,
   reconnectTimer |-> FALSE, heartbeatTimer |-> FALSE,
   timeouts |-> <<>>, intervals |-> <<>>, sent |-> <<>>,
   validUrl |-> validUrl, reachable |-> FALSE, unanswered |-> 0,
   dials |-> 0, detached |-> FALSE, stopped |-> FALSE]

\* a sequence without its last element: the timer the handle refers to is
\* the one created last
Front(s) == SubSeq(s, 1, Len(s) - 1)

clearReconnectTimer(A) ==
  IF A.reconnectTimer
  THEN [A EXCEPT !.timeouts = Front(@), !.reconnectTimer = FALSE]
  ELSE A

clearHeartbeatTimer(A) ==
  IF A.heartbeatTimer
  THEN [A EXCEPT !.intervals = Front(@), !.heartbeatTimer = FALSE]
  ELSE A

\* a scheduleReconnect whose delay is twice the configured interval
scheduleReconnect_Doubled(A) ==
  IF A.reconnectTimer THEN A
  ELSE [A EXCEPT !.timeouts = Append(@, 2 * reconnectInterval),
                 !.reconnectTimer = TRUE]

scheduleReconnect(A) ==
  IF A.reconnectTimer THEN A
  ELSE [A EXCEPT !.timeouts = Append(@, reconnectInterval),
                 !.reconnectTimer = TRUE]

\* connect: new WebSocket throws on a malformed URL, before this.ws is set
connect(A) ==
  IF A.ws = "CONNECTING" THEN A
  ELSE IF ~A.validUrl THEN scheduleReconnect([A EXCEPT !.dials = 1 - @])
  ELSE [A EXCEPT !.ws = "CONNECTING", !.dials = 1 - @]

\* ws.on('open')
onOpen(A) ==
  clearReconnectTimer([A EXCEPT !.ws = "OPEN", !.isConnected = TRUE])

\* ws.on('close')
onClose(A) ==
  scheduleReconnect(clearHeartbeatTimer(
    [A EXCEPT !.ws = "CLOSED", !.isConnected = FALSE, !.isRegistered = FALSE,
              !.unanswered = 0]))

\* disconnect: ws.close() on a socket that is connecting or open is followed
\* by the socket's 'close' event, whose handler stays registered
disconnect(A) ==
  LET B == clearHeartbeatTimer(clearReconnectTimer(A))
  IN [B EXCEPT !.ws = "null", !.isConnected = FALSE, !.isRegistered = FALSE,
               !.detached = @ \/ A.ws \in {"CONNECTING", "OPEN"},
               !.stopped = TRUE]

\* ws.on('close') of a socket this.ws no longer refers to
onDetachedClose(A) ==
  scheduleReconnect(clearHeartbeatTimer(
    [A EXCEPT !.detached = FALSE, !.isConnected = FALSE,
              !.isRegistered = FALSE, !.unanswered = 0]))

\* the callback of the reconnect timer i
reconnectTimerFires(A, i) ==
  connect([A EXCEPT !.timeouts = RemoveAt(@, i), !.reconnectTimer = FALSE])

\* sendMessage on the agent's socket
agentSend(A, frame) ==
  [A EXCEPT !.sent = @ \o sendMessage(A.ws = "OPEN", frame)]

\* the periodic heartbeat frame
HeartbeatFrame == TunnelMessage(Uuid, "heartbeat", configClientId, NoPayload)

\* a startHeartbeat that leaves the running interval in place
startHeartbeat_NoClear(A) ==
  [A EXCEPT !.intervals = Append(@, heartbeatInterval),
            !.heartbeatTimer = TRUE]

startHeartbeat(A) ==
  LET B == clearHeartbeatTimer(A)
  IN [B EXCEPT !.intervals = Append(@, heartbeatInterval),
               !.heartbeatTimer = TRUE]

\* the callback of the heartbeat interval i
heartbeatTimerFires(A, i) ==
  LET B == agentSend([A EXCEPT !.intervals[i] = heartbeatInterval],
                     HeartbeatFrame)
  IN [B EXCEPT !.unanswered =
        IF B.sent # <<>> /\ @ < MaxMissed THEN @ + 1 ELSE @]

\* TunnelWebSocketClient.handleRegister
agentHandleRegister(A, message) ==
  IF confirmedOf(message)
  THEN startHeartbeat([A EXCEPT !.isRegistered = TRUE])
  ELSE agentSend(A, TunnelMessage(Uuid, "register", configClientId,
                                  RegistrationPayload))

\* a handleMessage that answers a pong with a heartbeat
agentHandleMessage_PongAnswered(A, message) ==
  CASE message.type = "register" -> agentHandleRegister(A, message)
    [] message.type = "request" -> A
    [] message.type \in {"heartbeat", "pong"} ->
         [A EXCEPT !.sent = @ \o agentHandleHeartbeat(message, configClientId,
                                                      A.ws = "OPEN")]
    [] OTHER -> A

\* TunnelWebSocketClient.handleMessage; a request frame goes to the request
\* handler (onRequest), which leaves the link as it is
agentHandleMessage(A, message) ==
  CASE message.type = "register" -> agentHandleRegister(A, message)
    [] message.type = "request" -> A
    [] message.type = "heartbeat" ->
         [A EXCEPT !.sent = @ \o agentHandleHeartbeat(message, configClientId,
                                                      A.ws = "OPEN")]
    [] message.type = "pong" -> [A EXCEPT !.unanswered = 0]
    [] OTHER -> A

\* what arrives on a socket: text that JSON.parse rejects, or a message
Unparsable == [parsable |-> FALSE]
Parsed(message) == [parsable |-> TRUE, message |-> message]

\* ws.on('message'): the catch logs what JSON.parse throws
agentOnMessage(A, data) ==
  IF ~data.parsable THEN A ELSE agentHandleMessage(A, data.message)

\* what the agent's socket can receive; the peer gives its frames ids of its
\* own, here 0
ReceivedData ==
  { Unparsable }
  \cup { Parsed(TunnelMessage(0, "register", NoId, NoPayload)),
         Parsed(TunnelMessage(0, "register", configClientId,
                              RegisterPayload(TRUE))),
         Parsed(TunnelMessage(0, "heartbeat", NoId, NoPayload)),
         Parsed(TunnelMessage(0, "pong", NoId, NoPayload)),
         Parsed(TunnelMessage(0, "error", NoId, AgentError)) }

(* --------------- the way of a request: ingress to agent --------------- *)
\* req.originalUrl of a request for pathname with the given query: the URL
\* of the request line
originalUrl(pathname, query) ==
  pathname \o (IF Len(query) > 0 THEN <<"?">> \o searchParams(query) ELSE <<>>)

\* the request the proxy handler of the ingress hands to handleRequest:
\* path is req.originalUrl, query is req.query
ingressRequest(pathname, query) ==
  [path |-> originalUrl(pathname, query), query |-> query]

\* the client handleRequest picks for a route, or the error it throws
selectClient(route, c) ==
  IF route.routeType = "specific"
  THEN IF ~HasClient(c, route.clientId)
       THEN [threw |-> TRUE, client |-> NoId]
       ELSE IF ~getClient(c, route.clientId).connected
       THEN [threw |-> TRUE, client |-> NoId]
       ELSE [threw |-> FALSE, client |-> getClient(c, route.clientId)]
  ELSE IF getConnectedClients(c) = <<>>
       THEN [threw |-> TRUE, client |-> NoId]
       ELSE [threw |-> FALSE, client |-> getAvailableClient(c)]

\* handleRequest up to the request payload: the route, the client looked up
\* for a /client/{id} path, and the payload of the frame (found = FALSE:
\* handleRequest throws "not found", no frame is made)
handleRequest(request, c) ==
  LET route == parseRoute(request.path, c)
  IN [found |-> route.routeType = "specific" => HasClient(c, route.clientId),
      route |-> route,
      payload |-> RequestPayload(route.targetPath, request.query,
                                 route.mapping.target)]

(* ------------- the relay's handlers, as functions of the tables ------- *)
\* what a handler leaves behind: the tables, the frames it sent and the
\* links it sent them on, and what it answered to its HTTP caller
Outcome(S, sent, response) == [state |-> S, sent |-> sent, response |-> response]

OnLink(l, frame) == [ws |-> l, frame |-> frame]

\* HttpProxyHandler.sendRequestToClient: false without a connected record
\* and when ws.send throws
trySend(S, clientId, requestId, throws) ==
  IF ~HasClient(S.clients, clientId) \/ ~getClient(S.clients, clientId).connected
  THEN [success |-> FALSE, sent |-> <<>>]
  ELSE IF throws
  THEN [success |-> FALSE, sent |-> <<>>]
  ELSE [success |-> TRUE,
        sent |-> <<OnLink(getClient(S.clients, clientId).ws,
                          TunnelMessage(requestId, "request", clientId,
                                        HttpRequestPayload))>>]

\* an executor that leaves the pending entry of a failed send in place
dispatch_NoReject(S, requestId, clientId, caller, t, throws) ==
  LET S1 == addPendingRequest(S, requestId, clientId, caller, t)
      r == trySend(S1, clientId, requestId, throws)
  IN [state |-> S1, sent |-> r.sent, success |-> r.success,
      pendingAtSend |-> requestId \in DOMAIN S1.pending]

\* the promise executor of handleRequest and handleRequestToClient
dispatch(S, requestId, clientId, caller, t, throws) ==
  LET S1 == addPendingRequest(S, requestId, clientId, caller, t)
      r == trySend(S1, clientId, requestId, throws)
  IN [state |-> IF r.success THEN S1
                ELSE rejectRequest(S1, requestId,
                                   "Failed to send request to client"),
      sent |-> r.sent, success |-> r.success,
      pendingAtSend |-> requestId \in DOMAIN S1.pending]

\* a handler's catch: the promise was never made
refuse(S, requestId, response) ==
  [S EXCEPT !.httpResp[requestId] = response]

\* GET /client/:clientId/health
getClientHealth(S, clientId, requestId, t, throws) ==
  IF ~HasClient(S.clients, clientId)
  THEN Outcome(refuse(S, requestId, Unhealthy(NotFoundMessage(clientId))),
               <<>>, Unhealthy(NotFoundMessage(clientId)))
  ELSE IF ~getClient(S.clients, clientId).connected
  THEN Outcome(refuse(S, requestId, Unhealthy(NotConnectedMessage(clientId))),
               <<>>, Unhealthy(NotConnectedMessage(clientId)))
  ELSE LET d == dispatch(S, requestId, clientId, "health", t, throws)
       IN Outcome(d.state, d.sent, d.state.httpResp[requestId])

\* the proxy handler on /client/{clientId}/...
proxySpecific(S, clientId, requestId, t, throws) ==
  IF ~HasClient(S.clients, clientId)
  THEN Outcome(refuse(S, requestId, ProxyError(NotFoundMessage(clientId))),
               <<>>, ProxyError(NotFoundMessage(clientId)))
  ELSE IF ~getClient(S.clients, clientId).connected
  THEN Outcome(refuse(S, requestId, ProxyError(NotConnectedMessage(clientId))),
               <<>>, ProxyError(NotConnectedMessage(clientId)))
  ELSE LET d == dispatch(S, requestId, clientId, "proxy", t, throws)
       IN Outcome(d.state, d.sent, d.state.httpResp[requestId])

\* the JSON answers of the read-only routes
Json(status, body) == HttpResponse(status, "", "", body)

\* a GET /clients/:clientId that counts the lookup as a request
getClientInfo_Counts(S, clientId) ==
  IF ~HasClient(S.clients, clientId)
  THEN Outcome(S, <<>>, HttpResponse(404, "Client not found", "", ""))
  ELSE Outcome([S EXCEPT !.clients[IndexOfId(S.clients, clientId)].requestCount
                           = @ + 1],
               <<>>, Json(200, "client"))

\* GET /clients/:clientId
getClientInfo(S, clientId) ==
  IF ~HasClient(S.clients, clientId)
  THEN Outcome(S, <<>>, HttpResponse(404, "Client not found", "", ""))
  ELSE Outcome(S, <<>>, Json(200, "client"))

\* GET /route-info: path is req.query.path, <<>> when the parameter is missing
getRouteInfo(S, path) ==
  IF path = <<>>
  THEN Outcome(S, <<>>, HttpResponse(400, "Missing path parameter", "", ""))
  ELSE Outcome(S, <<>>, Json(200, parseRoute(path, <<>>).routeType))

\* ClientManager.getStats: the two counts of clients
getStats(S) ==
  [totalClients |-> Len(S.clients),
   connectedClients |-> Len(getConnectedClients(S.clients))]

\* the routes of the operator API
OperatorRoutes ==
  { "/health", "/status", "/clients", "/clients/:clientId", "/route-info",
    "/client/:clientId/health" }

operatorGet(S, route, clientId, path, requestId, t, throws) ==
  CASE route = "/health" -> Outcome(S, <<>>, Json(200, "ok"))
    [] route = "/status" -> Outcome(S, <<>>, Json(200, "status"))
    [] route = "/clients" -> Outcome(S, <<>>, Json(200, "clients"))
    [] route = "/clients/:clientId" -> getClientInfo(S, clientId)
    [] route = "/route-info" -> getRouteInfo(S, path)
    [] route = "/client/:clientId/health" ->
         getClientHealth(S, clientId, requestId, t, throws)

(* ------------- the relay's frame handlers, as functions --------------- *)
\* what a frame handler leaves behind: the tables, the frames it sent, and
\* the links that were closed
FrameOutcome(S, sent, closed) == [state |-> S, sent |-> sent, closed |-> closed]

\* TunnelWebSocketServer.sendMessage
relaySend(l, open, frame) == IF open THEN <<OnLink(l, frame)>> ELSE <<>>

\* TunnelWebSocketServer.sendError
relaySendError(l, open, errorMessage) ==
  relaySend(l, open, TunnelMessage(Uuid, "error", NoId,
                                   Payload(TRUE, 0, FALSE, "", errorMessage)))

\* message.clientId || uuidv4()
clientIdOr(message, minted) ==
  IF message.clientId = NoId \/ message.clientId = "" THEN minted
  ELSE message.clientId

\* a handleRegister that confirms under the id the frame carried
relayHandleRegister_EchoesFrameId(S, l, message, t, open, minted) ==
  LET clientId == clientIdOr(message, minted)
      S1 == registerClient(S, clientId, l, t)
  IN FrameOutcome(S1,
       relaySend(l, open, TunnelMessage(Uuid, "register", message.clientId,
                                        RegisterPayload(TRUE))),
       {})

\* TunnelWebSocketServer.handleRegister
relayHandleRegister(S, l, message, t, open, minted) ==
  LET clientId == clientIdOr(message, minted)
      S1 == registerClient(S, clientId, l, t)
      clientInfo == getClient(S1.clients, clientId)
  IN FrameOutcome(S1,
       relaySend(l, open, TunnelMessage(Uuid, "register", clientInfo.id,
                                        RegisterPayload(TRUE))),
       {})

\* TunnelWebSocketServer.handleHeartbeat
relayHandleHeartbeat(S, l, message, t, open) ==
  FrameOutcome(IF message.clientId # NoId /\ message.clientId # ""
               THEN updateHeartbeat(S, message.clientId, t) ELSE S,
               relaySend(l, open, TunnelMessage(message.id, "pong", NoId,
                                                NoPayload)),
               {})

\* a handleMessage that takes a frame of a kind it does not know for a
\* heartbeat
relayHandleMessage_DefaultHeartbeat(S, l, message, t, open, minted) ==
  CASE message.type = "register" ->
         relayHandleRegister(S, l, message, t, open, minted)
    [] message.type = "response" ->
         FrameOutcome(resolveRequest(S, message.id, message.payload),
           IF message.id \in DOMAIN S.pending /\ ~message.payload.present
           THEN relaySendError(l, open, "Invalid message format") ELSE <<>>,
           {})
    [] message.type = "error" ->
         FrameOutcome(rejectRequest(S, message.id, ErrorMessage(message.payload)),
                      <<>>, {})
    [] OTHER -> relayHandleHeartbeat(S, l, message, t, open)

\* TunnelWebSocketServer.handleMessage, with the catch of ws.on('message')
\* for what resolveRequest throws on a response frame without payload
relayHandleMessage(S, l, message, t, open, minted) ==
  CASE message.type = "register" ->
         relayHandleRegister(S, l, message, t, open, minted)
    [] message.type = "response" ->
         FrameOutcome(resolveRequest(S, message.id, message.payload),
           IF message.id \in DOMAIN S.pending /\ ~message.payload.present
           THEN relaySendError(l, open, "Invalid message format") ELSE <<>>,
           {})
    [] message.type = "error" ->
         FrameOutcome(rejectRequest(S, message.id, ErrorMessage(message.payload)),
                      <<>>, {})
    [] message.type = "heartbeat" ->
         relayHandleHeartbeat(S, l, message, t, open)
    [] OTHER -> FrameOutcome(S, <<>>, {})

\* ws.on('message') of the relay: what JSON.parse throws is answered with an
\* error frame
relayOnMessage(S, l, data, t, open, minted) ==
  IF ~data.parsable
  THEN FrameOutcome(S, relaySendError(l, open, "Invalid message format"), {})
  ELSE relayHandleMessage(S, l, data.message, t, open, minted)

\* the callback of the relay's heartbeat interval: the sweep, then a
\* heartbeat frame to the link of every connected record
relayHeartbeatTimerFires(S, t) ==
  LET S1 == checkHeartbeats(S, t)
      cc == getConnectedClients(S1.clients)
  IN FrameOutcome(S1,
       [i \in 1..Len(cc) |->
          OnLink(cc[i].ws, TunnelMessage(Uuid, "heartbeat", NoId, NoPayload))],
       {})

\* the largest message a socket of the ws library accepts when, as here, it
\* is constructed without the maxPayload option: 100 MiB
maxPayload == 100 * 1024 * 1024

\* a frame of size bytes arrives on link l of the relay. The socket fails a
\* message above maxPayload: it emits 'error', closes the connection (1009)
\* and emits 'close'; both handlers unregister
relayReceive(S, l, data, size, t, minted) ==
  IF size > maxPayload
  THEN FrameOutcome(unregisterClient(unregisterClient(S, l), l), <<>>, {l})
  ELSE relayOnMessage(S, l, data, t, TRUE, minted)

\* a frame of size bytes arrives on the agent's socket
agentReceive(A, data, size) ==
  IF size > maxPayload THEN onClose(A) ELSE agentOnMessage(A, data)

\* no function call is under way
NoCall == [op |-> "none"]

(* -------------------------------- Init -------------------------------- *)
\* the relay after construction: empty tables, no link
RelayInit ==
  /\ now = 0
  /\ wsState = [l \in Links |-> "idle"]
  /\ clients = <<>>
  /\ pendingRequests = <<>>
  /\ timers = <<>>
  /\ nextReq = 0
  /\ toAgent = [l \in Links |-> {}]
  /\ toRelay = [l \in Links |-> {}]
  /\ completed = [r \in ReqIds |-> <<>>]
  /\ httpResp = [r \in ReqIds |-> NoResponse]
  /\ dispatchedTo = [r \in ReqIds |-> NotDispatched]

Init == RelayInit /\ call = NoCall /\ agent = NewClient(TRUE)

(* ------------- the calls of the resolver: their arguments ------------- *)
\* the result of a call that has not been made yet
NoResult == [none |-> TRUE]

PathChars == {"/", "a", "b"}

\* the paths a request can carry: under /client/a, under /client/ and
\* outside /client/
Tails == UNION {[1..n -> PathChars] : n \in 0..MaxLen}

Paths ==
  {h \o t : h \in {ClientLit \o <<"a">>, ClientLit, <<>>}, t \in Tails}

\* the prefixes an agent registers: non-empty path segments
Prefixes == {<<"a">>, <<"a", "b">>, <<"b">>}

\* the target an agent registers a prefix with
TargetOf(prefix) ==
  IF prefix = <<"a">> THEN "http://localhost:3001"
  ELSE IF prefix = <<"b">> THEN "http://localhost:3002"
  ELSE "http://localhost:3003"

\* the mapping tables of a registration: prefixes unique within the table,
\* in any order
MappingTables ==
  { [i \in 1..Len(ps) |-> ClientMapping(ps[i], TargetOf(ps[i]))] :
      ps \in { q \in UNION {[1..n -> Prefixes] : n \in 0..Cardinality(Prefixes)} :
                 \A i, j \in 1..Len(q) : i # j => q[i] # q[j] } }

\* the registries the resolver runs against: empty, or agent "a" registered
\* with a mapping table
Registries ==
  { <<>> } \cup
  { <<[RegisteredClient(<<"a">>, 1, 0, 0) EXCEPT !.mappings = table]>> :
      table \in MappingTables }

ParseRouteCalls ==
  { [op |-> "parseRoute", done |-> FALSE,
     in |-> [path |-> path, registry |-> c], out |-> NoResult] :
      path \in Paths, c \in Registries }

\* ids of the frames an agent is sent
FrameIds == 0..MaxReqs

\* the query objects of a request
Queries == { <<>>, <<[key |-> "x", value |-> "1"]>> }

\* the payloads of the request frames an agent is sent: none, or one with a
\* path (possibly missing) and possibly a targetMapping
AgentRequestPayloads ==
  { NoPayload } \cup
  { RequestPayload(path, query, target) :
      path \in {Undefined, Slash, <<"/", "a">>, <<"a">>},
      query \in Queries,
      target \in {"none", "default", "http://localhost:3001",
                  "http://localhost:3002"} }

OnRequestCalls ==
  { [op |-> "onRequest", done |-> FALSE,
     in |-> [frame |-> TunnelMessage(id, "request", NoId, payload),
             targets |-> targets, outcome |-> outcome, open |-> open],
     out |-> NoResult] :
      id \in FrameIds, payload \in AgentRequestPayloads,
      targets \in {{}, {"http://localhost:3001"}},
      outcome \in FetchOutcomes, open \in BOOLEAN }

\* the names of the headers of a request
HeaderNames ==
  skipHeaders \cup
  {"Host", "X-Forwarded-For", "accept", "Accept", "set-cookie",
   "x-forwarded-port"}

\* the values of the headers of a request
HeaderValues ==
  { StringValue("v1"), ArrayValue(<<"v1", "v2">>), UndefinedValue }

\* the headers objects of a request: the names are the keys of an object
HeaderObjects ==
  { h \in UNION { [1..n -> [key : HeaderNames, value : HeaderValues]] :
                    n \in 0..MaxHeaders } :
      \A i, j \in 1..Len(h) : i # j => h[i].key # h[j].key }

SanitizeHeadersCalls ==
  { [op |-> "sanitizeHeaders", done |-> FALSE,
     in |-> [headers |-> h], out |-> NoResult] : h \in HeaderObjects }

\* the mapping targets an agent registered with the table is configured with
TargetsOf(c) ==
  IF c = <<>> THEN {}
  ELSE { c[1].mappings[i].target : i \in 1..Len(c[1].mappings) }

\* requests for a path under /client/a, with and without a query
ForwardCalls ==
  { [op |-> "forward", done |-> FALSE,
     in |-> [pathname |-> ClientLit \o <<"a">> \o t, query |-> query,
             registry |-> c, outcome |-> outcome],
     out |-> NoResult] :
      t \in {<<>>, Slash, <<"/", "b">>, <<"/", "a", "/", "b">>},
      query \in Queries, c \in Registries, outcome \in FetchOutcomes }

\* the heartbeat frames an agent is sent
HeartbeatCalls ==
  { [op |-> "handleHeartbeat", done |-> FALSE,
     in |-> [frame |-> TunnelMessage(id, "heartbeat", NoId, NoPayload),
             clientId |-> clientId, open |-> open],
     out |-> NoResult] :
      id \in FrameIds \cup {MaxReqs + 1}, clientId \in ClientIds,
      open \in BOOLEAN }

\* the largest requestCount of a record of a registry
MaxCount == 2

\* the ids of the agents of a loaded registry
LoadedIds == {<<"a">>, <<"b">>, <<"a", "b">>}

\* registries of agents that have been sent requests: distinct ids in any
\* registration order, each on a link of its own
LoadedRegistries ==
  { [i \in 1..Len(ids) |->
       [RegisteredClient(ids[i], i, 0, 0) EXCEPT !.requestCount = counts[i],
                                                 !.dispatched = counts[i]]] :
      ids \in { q \in UNION {[1..n -> LoadedIds] : n \in 0..Cardinality(LoadedIds)} :
                  \A i, j \in 1..Len(q) : i # j => q[i] # q[j] },
      counts \in [1..Cardinality(LoadedIds) -> 0..MaxCount] }

\* paths inside and outside /client/{id}
SelectPaths ==
  { Slash, <<"/", "a">>, <<"/", "a", "/", "b">>, ClientLit,
    <<"/", "c", "l", "i", "e", "n", "t">>, ClientLit \o <<"a">>,
    ClientLit \o <<"b">> \o Slash }

SelectClientCalls ==
  { [op |-> "selectClient", done |-> FALSE,
     in |-> [path |-> path, registry |-> c], out |-> NoResult] :
      path \in SelectPaths, c \in LoadedRegistries }

\* the id of the request a handler of the relay is called with, and the
\* time of the call
NewRequest == MaxReqs + 1
HandlerReqIds == 1..NewRequest
HandlerNow == ClockStep

\* the registries a handler can find: agents registered in any order, on
\* links of their own or on one link, with requests counted
RelayRegistries ==
  { [i \in 1..Len(ids) |->
       [RegisteredClient(ids[i], links[i], 0, 0)
          EXCEPT !.requestCount = counts[i], !.dispatched = counts[i]]] :
      ids \in { q \in UNION {[1..n -> ClientIds] : n \in 0..Cardinality(ClientIds)} :
                  \A i, j \in 1..Len(q) : i # j => q[i] # q[j] },
      links \in [1..Cardinality(ClientIds) -> Links],
      counts \in [1..Cardinality(ClientIds) -> 0..MaxReqs] }

\* the pending tables a handler can find: empty, or a proxied request
PendingTables == { <<>>, <<PendingRequest(1, "proxy", 0)>> }

HandlerState(c, p) ==
  [clients |-> c, pending |-> p,
   timers |-> [r \in DOMAIN p |-> p[r].timestamp + requestTimeout],
   completed |-> [r \in HandlerReqIds |-> <<>>],
   httpResp |-> [r \in HandlerReqIds |-> NoResponse]]

HandlerStates ==
  { HandlerState(c, p) : c \in RelayRegistries, p \in PendingTables }

OperatorGetCalls ==
  { [op |-> "operatorGet", done |-> FALSE,
     in |-> [route |-> route, clientId |-> id, path |-> path,
             throws |-> throws, state |-> S],
     out |-> NoResult] :
      route \in OperatorRoutes, id \in ClientIds, path \in {<<>>, Slash},
      throws \in BOOLEAN, S \in HandlerStates }

\* 10 MiB
TenMiB == 10 * 1024 * 1024

\* the sizes of the frames that arrive
FrameSizes == {1, TenMiB, TenMiB + 1, maxPayload, maxPayload + 1}

\* what the relay's socket can receive
RelayReceived ==
  { Unparsable }
  \cup { Parsed(TunnelMessage(Uuid, "register", id, RegistrationPayload)) :
           id \in ClientIds \cup {NoId, ""} }
  \cup { Parsed(TunnelMessage(r, "response", NoId, p)) :
           r \in {0, 1}, p \in {NoPayload, Payload(TRUE, 200, TRUE, "ok", "")} }
  \cup { Parsed(TunnelMessage(1, "error", NoId, AgentError)) }
  \cup { Parsed(TunnelMessage(Uuid, type, id, NoPayload)) :
           type \in {"heartbeat", "request", "pong", "bogus"},
           id \in {"a", NoId} }

RelayReceiveCalls ==
  { [op |-> "relayReceive", done |-> FALSE,
     in |-> [state |-> S, ws |-> l, data |-> data, size |-> size],
     out |-> NoResult] :
      S \in HandlerStates, l \in Links, data \in RelayReceived,
      size \in FrameSizes }

\* the agent with an open link, before and after the confirmation of its
\* registration
AgentLinkStates ==
  { [NewClient(TRUE) EXCEPT !.ws = "OPEN", !.isConnected = TRUE,
                            !.isRegistered = registered,
                            !.heartbeatTimer = registered,
                            !.intervals = IF registered THEN <<left>> ELSE <<>>,
                            !.reachable = TRUE, !.dials = 1] :
      registered \in BOOLEAN, left \in {0, heartbeatInterval} }

\* what the agent's socket can receive, with the kinds only the relay handles
AgentReceived ==
  ReceivedData
  \cup { Parsed(TunnelMessage(1, type, NoId, NoPayload)) :
           type \in {"response", "bogus"} }

AgentReceiveCalls ==
  { [op |-> "agentReceive", done |-> FALSE,
     in |-> [agent |-> A, data |-> data, size |-> size], out |-> NoResult] :
      A \in AgentLinkStates, data \in AgentReceived, size \in FrameSizes }

\* the executor runs for a client the handler has found connected; ws.send
\* returns or throws
DispatchCalls ==
  UNION { { [op |-> "dispatch", done |-> FALSE,
             in |-> [state |-> S, clientId |-> id, caller |-> caller,
                     throws |-> throws],
             out |-> NoResult] :
              id \in {x \in ClientIds : HasClient(S.clients, x)},
              caller \in {"proxy", "health"}, throws \in BOOLEAN } :
          S \in HandlerStates }

Calls ==
  DispatchCalls \cup
  ParseRouteCalls \cup OnRequestCalls \cup SanitizeHeadersCalls
    \cup ForwardCalls \cup HeartbeatCalls \cup SelectClientCalls
    \cup OperatorGetCalls \cup RelayReceiveCalls \cup AgentReceiveCalls

CallInit == RelayInit /\ call \in Calls /\ agent = NewClient(TRUE)

\* handleRequest resolves the path of a request
ApplyParseRoute ==
  /\ call.op = "parseRoute" /\ ~call.done
  /\ call' = [call EXCEPT !.done = TRUE,
                          !.out = parseRoute(call.in.path, call.in.registry)]
  /\ UNCHANGED <<relayVars, agent>>

\* the agent handles a request frame
ApplyOnRequest ==
  /\ call.op = "onRequest" /\ ~call.done
  /\ call' = [call EXCEPT !.done = TRUE,
                          !.out = onRequest(call.in.frame, call.in.targets,
                                            call.in.outcome, call.in.open)]
  /\ UNCHANGED <<relayVars, agent>>

\* handleRequest prepares the headers of the request payload
ApplySanitizeHeaders ==
  /\ call.op = "sanitizeHeaders" /\ ~call.done
  /\ call' = [call EXCEPT !.done = TRUE,
                          !.out = sanitizeHeaders(call.in.headers)]
  /\ UNCHANGED <<relayVars, agent>>

\* a request goes from the ingress through handleRequest to the agent, whose
\* handler builds the local URL
ApplyForward ==
  /\ call.op = "forward" /\ ~call.done
  /\ LET h == handleRequest(ingressRequest(call.in.pathname, call.in.query),
                            call.in.registry)
         a == onRequest(TunnelMessage(1, "request", NoId, h.payload),
                        TargetsOf(call.in.registry), call.in.outcome, TRUE)
     IN call' = [call EXCEPT !.done = TRUE,
                 !.out = [found |-> h.found, payload |-> h.payload,
                          base |-> IF h.found THEN a.base ELSE <<>>,
                          url |-> IF h.found THEN a.url ELSE <<>>]]
  /\ UNCHANGED <<relayVars, agent>>

\* the agent handles a heartbeat frame
ApplyHandleHeartbeat ==
  /\ call.op = "handleHeartbeat" /\ ~call.done
  /\ call' = [call EXCEPT !.done = TRUE,
                          !.out = agentHandleHeartbeat(call.in.frame,
                                                       call.in.clientId,
                                                       call.in.open)]
  /\ UNCHANGED <<relayVars, agent>>

\* handleRequest resolves the path of a request and picks the client
ApplySelectClient ==
  /\ call.op = "selectClient" /\ ~call.done
  /\ call' = [call EXCEPT !.done = TRUE,
       !.out = selectClient(parseRoute(call.in.path, call.in.registry),
                            call.in.registry)]
  /\ UNCHANGED <<relayVars, agent>>

\* a GET on a route of the operator API
ApplyOperatorGet ==
  /\ call.op = "operatorGet" /\ ~call.done
  /\ call' = [call EXCEPT !.done = TRUE,
       !.out = operatorGet(call.in.state, call.in.route, call.in.clientId,
                           call.in.path, NewRequest, HandlerNow,
                           call.in.throws)]
  /\ UNCHANGED <<relayVars, agent>>

\* a frame arrives on a link of the relay
ApplyRelayReceive ==
  /\ call.op = "relayReceive" /\ ~call.done
  /\ call' = [call EXCEPT !.done = TRUE,
       !.out = relayReceive(call.in.state, call.in.ws, call.in.data,
                            call.in.size, HandlerNow, MintedId)]
  /\ UNCHANGED <<relayVars, agent>>

\* a frame arrives on the agent's socket
ApplyAgentReceive ==
  /\ call.op = "agentReceive" /\ ~call.done
  /\ call' = [call EXCEPT !.done = TRUE,
       !.out = agentReceive(call.in.agent, call.in.data, call.in.size)]
  /\ UNCHANGED <<relayVars, agent>>

\* the promise executor of a handler adds the pending entry and sends
ApplyDispatch ==
  /\ call.op = "dispatch" /\ ~call.done
  /\ call' = [call EXCEPT !.done = TRUE,
       !.out = dispatch(call.in.state, NewRequest, call.in.clientId,
                        call.in.caller, HandlerNow, call.in.throws)]
  /\ UNCHANGED <<relayVars, agent>>

CallNext ==
  \/ ApplyDispatch
  \/ ApplyRelayReceive
  \/ ApplyAgentReceive
  \/ ApplyOperatorGet
  \/ ApplySelectClient
  \/ ApplyParseRoute
  \/ ApplyHandleHeartbeat
  \/ ApplyForward
  \/ ApplySanitizeHeaders
  \/ ApplyOnRequest

CallSpec == CallInit /\ [][CallNext]_vars

(* ------------------------------ actions ------------------------------- *)
\* wss.on('connection'): a new link; links are numbered in accept order
Connect(l) ==
  /\ wsState[l] = "idle"
  /\ \A k \in 1..(l - 1) : wsState[k] # "idle"
  /\ wsState' = [wsState EXCEPT ![l] = "OPEN"]
  /\ UNCHANGED <<now, clients, pendingRequests, timers, nextReq, toAgent,
                 toRelay, completed, httpResp, dispatchedTo, call, agent>>

\* a register frame with message.clientId = clientId arrives on link l
handleRegister(l, clientId) ==
  /\ wsState[l] = "OPEN"
  /\ Commit(registerClient(RelayState, clientId, l, now))
  /\ UNCHANGED <<now, wsState, nextReq, toAgent, toRelay, dispatchedTo, call,
                 agent>>

\* a response frame arrives on link l
handleResponse(l, message) ==
  /\ wsState[l] = "OPEN"
  /\ message.type = "response"
  /\ Commit(resolveRequest(RelayState, message.id, message.payload))
  /\ toRelay' = [toRelay EXCEPT ![l] = @ \ {message}]
  /\ UNCHANGED <<now, wsState, nextReq, toAgent, dispatchedTo, call, agent>>

\* an error frame arrives on link l
handleError(l, message) ==
  /\ wsState[l] = "OPEN"
  /\ message.type = "error"
  /\ Commit(rejectRequest(RelayState, message.id, ErrorMessage(message.payload)))
  /\ toRelay' = [toRelay EXCEPT ![l] = @ \ {message}]
  /\ UNCHANGED <<now, wsState, nextReq, toAgent, dispatchedTo, call, agent>>

\* a heartbeat frame arrives on link l; it may carry no clientId
handleHeartbeat(l, clientId) ==
  /\ wsState[l] = "OPEN"
  /\ Commit(IF clientId # NoId THEN updateHeartbeat(RelayState, clientId, now)
            ELSE RelayState)
  /\ UNCHANGED <<now, wsState, nextReq, toAgent, toRelay, dispatchedTo, call,
                 agent>>

\* ws.on('close'). Nothing the agent of the link sends afterwards reaches the
\* relay: the frames in flight and the requests it still holds drop out
OnClose(l) ==
  /\ wsState[l] \in {"OPEN", "CLOSING"}
  /\ wsState' = [wsState EXCEPT ![l] = "CLOSED"]
  /\ Commit(unregisterClient(RelayState, l))
  /\ toRelay' = [toRelay EXCEPT ![l] = {}]
  /\ toAgent' = [toAgent EXCEPT ![l] = {}]
  /\ UNCHANGED <<now, nextReq, dispatchedTo, call, agent>>

\* ws.on('error'): the socket then closes, and 'close' follows
OnSocketError(l) ==
  /\ wsState[l] = "OPEN"
  /\ wsState' = [wsState EXCEPT ![l] = "CLOSING"]
  /\ Commit(unregisterClient(RelayState, l))
  /\ toRelay' = [toRelay EXCEPT ![l] = {}]
  /\ toAgent' = [toAgent EXCEPT ![l] = {}]
  /\ UNCHANGED <<now, nextReq, dispatchedTo, call, agent>>

\* the heartbeat checker's interval fires
Sweep ==
  /\ Commit(checkHeartbeats(RelayState, now))
  /\ UNCHANGED <<now, wsState, nextReq, toAgent, toRelay, dispatchedTo, call,
                 agent>>

\* the timeout timer of request requestId fires
RequestTimeout(requestId) ==
  /\ requestId \in DOMAIN timers
  /\ now >= timers[requestId]
  /\ Commit(rejectRequest([RelayState EXCEPT !.timers = Without(@, requestId)],
                          requestId, "Request timeout"))
  /\ UNCHANGED <<now, wsState, nextReq, toAgent, toRelay, dispatchedTo, call,
                 agent>>

Tick ==
  /\ now + ClockStep <= MaxNow
  /\ now' = now + ClockStep
  /\ UNCHANGED <<wsState, clients, pendingRequests, timers, nextReq, toAgent,
                 toRelay, completed, httpResp, dispatchedTo, call, agent>>

\* HttpProxyHandler.sendRequestToClient: whether the frame is handed to the
\* socket of the record found under clientId
sendRequestToClient(S, clientId, requestId) ==
  HasClient(S.clients, clientId) /\ getClient(S.clients, clientId).connected

\* the record of client id has been handed one more request
Handed(S, id) ==
  IF HasClient(S.clients, id)
  THEN [S EXCEPT !.clients[IndexOfId(S.clients, id)].dispatched = @ + 1]
  ELSE S

\* the promise executor of handleRequest and of handleRequestToClient: add
\* the pending entry, then send
Dispatch(requestId, client, caller) ==
  LET S == Handed(addPendingRequest(RelayState, requestId, client.id, caller,
                                    now),
                  client.id) IN
  /\ dispatchedTo' = [dispatchedTo EXCEPT ![requestId] =
                        [clientId |-> client.id, ws |-> client.ws,
                         caller |-> caller]]
  /\ IF sendRequestToClient(S, client.id, requestId)
     THEN /\ WsSend(getClient(S.clients, client.id).ws,
                    TunnelMessage(requestId, "request", client.id,
                                  HttpRequestPayload))
          /\ Commit(S)
     ELSE /\ toAgent' = toAgent
          /\ Commit(rejectRequest(S, requestId,
                                  "Failed to send request to client"))

\* a refusal that leaves a pending entry behind
Refuse_LeavesPending(requestId, message) ==
  /\ httpResp' = [httpResp EXCEPT ![requestId] = ProxyError(message)]
  /\ pendingRequests' = With(pendingRequests, requestId,
                             PendingRequest(requestId, "proxy", now))
  /\ UNCHANGED <<clients, timers, completed, toAgent, dispatchedTo>>

\* handleRequest throws before the promise is made: the proxy handler's catch
Refuse(requestId, message) ==
  /\ httpResp' = [httpResp EXCEPT ![requestId] = ProxyError(message)]
  /\ UNCHANGED <<clients, pendingRequests, timers, completed, toAgent,
                 dispatchedTo>>

\* the proxy handler on a path /client/{clientId}/...
HttpRequestSpecific(clientId) ==
  LET requestId == nextReq + 1 IN
  /\ nextReq < MaxReqs
  /\ now + requestTimeout <= MaxNow
  /\ nextReq' = requestId
  /\ IF ~HasClient(clients, clientId)
     THEN Refuse(requestId, NotFoundMessage(clientId))
     ELSE IF ~getClient(clients, clientId).connected
     THEN Refuse(requestId, NotConnectedMessage(clientId))
     ELSE Dispatch(requestId, getClient(clients, clientId), "proxy")
  /\ UNCHANGED <<now, wsState, toRelay, call, agent>>

\* GET /client/:clientId/health: handleRequestToClient with a request the
\* route builds; what it throws goes to the route's own catch
HttpHealthCheck(clientId) ==
  LET requestId == nextReq + 1 IN
  /\ nextReq < MaxReqs
  /\ now + requestTimeout <= MaxNow
  /\ nextReq' = requestId
  /\ IF ~HasClient(clients, clientId)
     THEN /\ httpResp' = [httpResp EXCEPT ![requestId] =
                            Unhealthy(NotFoundMessage(clientId))]
          /\ UNCHANGED <<clients, pendingRequests, timers, completed, toAgent,
                         dispatchedTo>>
     ELSE IF ~getClient(clients, clientId).connected
     THEN /\ httpResp' = [httpResp EXCEPT ![requestId] =
                            Unhealthy(NotConnectedMessage(clientId))]
          /\ UNCHANGED <<clients, pendingRequests, timers, completed, toAgent,
                         dispatchedTo>>
     ELSE Dispatch(requestId, getClient(clients, clientId), "health")
  /\ UNCHANGED <<now, wsState, toRelay, call, agent>>

\* the proxy handler on any other path: balanced routing
HttpRequestBalanced ==
  LET requestId == nextReq + 1 IN
  /\ nextReq < MaxReqs
  /\ now + requestTimeout <= MaxNow
  /\ nextReq' = requestId
  /\ IF getConnectedClients(clients) = <<>>
     THEN Refuse(requestId, "No connected clients available")
     ELSE Dispatch(requestId, getAvailableClient(clients), "proxy")
  /\ UNCHANGED <<now, wsState, toRelay, call, agent>>

\* the agent's request handler answers a request frame: a response frame
\* with the local target's response, or an error frame
AgentAnswer(l, frame, answer) ==
  /\ frame \in toAgent[l]
  /\ wsState[l] = "OPEN"
  /\ toAgent' = [toAgent EXCEPT ![l] = @ \ {frame}]
  /\ toRelay' = [toRelay EXCEPT ![l] = @ \cup
                   {IF answer = AgentError THEN sendError(frame.id, answer)
                    ELSE sendResponse(frame.id, answer)}]
  /\ UNCHANGED <<now, wsState, clients, pendingRequests, timers, nextReq,
                 completed, httpResp, dispatchedTo, call, agent>>

Next ==
  \/ \E l \in Links : Connect(l)
  \/ \E l \in Links, id \in ClientIds : handleRegister(l, id)
  \/ \E l \in Links : \E m \in Inbound(l, "response") : handleResponse(l, m)
  \/ \E l \in Links : \E m \in Inbound(l, "error") : handleError(l, m)
  \/ \E l \in Links, id \in ClientIds \cup {NoId} : handleHeartbeat(l, id)
  \/ \E l \in Links : OnClose(l)
  \/ \E l \in Links : OnSocketError(l)
  \/ Sweep
  \/ \E r \in ReqIds : RequestTimeout(r)
  \/ Tick
  \/ \E id \in ClientIds : HttpRequestSpecific(id)
  \/ HttpRequestBalanced
  \/ \E id \in HealthIds : HttpHealthCheck(id)
  \/ \E l \in Links : \E f \in toAgent[l] :
       \E answer \in LocalResponses \cup {AgentError} : AgentAnswer(l, f, answer)

Spec == Init /\ [][Next]_vars

\* the clock advances and an armed timer whose deadline has passed fires
Fairness ==
  /\ WF_vars(Tick)
  /\ \A r \in ReqIds : WF_vars(RequestTimeout(r))

FairSpec == Spec /\ Fairness

\* beside the clock and the request timers, the relay's heartbeat interval
\* keeps firing: checkHeartbeats runs whenever it has a record to remove
SweepFairness == Fairness /\ WF_vars(Sweep)

SweepFairSpec == Spec /\ SweepFairness

(* ---------------------- the agent's link: actions --------------------- *)
\* the frames of the step before have gone out
Quiet(A) == [A EXCEPT !.sent = <<>>]

AgentStep(B) == agent' = B /\ UNCHANGED <<relayVars, call>>

AgentInit ==
  /\ RelayInit
  /\ call = NoCall
  /\ agent \in { NewClient(validUrl) : validUrl \in BOOLEAN }

\* wsClient.connect() at the start of the process
Start ==
  /\ agent.ws = "null" /\ ~agent.reconnectTimer /\ ~agent.stopped
  /\ AgentStep(connect(Quiet(agent)))

\* the dial reaches the relay: the socket emits 'open'
DialOpen ==
  /\ agent.ws = "CONNECTING" /\ agent.reachable
  /\ AgentStep(onOpen(Quiet(agent)))

\* the dial fails: the socket emits 'error', which is logged, then 'close'
DialFail ==
  /\ agent.ws = "CONNECTING" /\ ~agent.reachable
  /\ AgentStep(onClose(Quiet(agent)))

\* the open link closes: the peer closes it or the transport fails
LinkClose ==
  /\ agent.ws = "OPEN"
  /\ AgentStep(onClose(Quiet(agent)))

ReconnectTimerFires ==
  \E i \in DOMAIN agent.timeouts :
    /\ agent.timeouts[i] = 0
    /\ AgentStep(reconnectTimerFires(Quiet(agent), i))

HeartbeatTimerFires ==
  \E i \in DOMAIN agent.intervals :
    /\ agent.intervals[i] = 0
    /\ AgentStep(heartbeatTimerFires(Quiet(agent), i))

\* time passes, up to the next timer that is due
AgentTick ==
  /\ agent.timeouts \o agent.intervals # <<>>
  /\ \A i \in DOMAIN agent.timeouts : agent.timeouts[i] >= AgentClockStep
  /\ \A i \in DOMAIN agent.intervals : agent.intervals[i] >= AgentClockStep
  /\ AgentStep([Quiet(agent) EXCEPT
       !.timeouts = [i \in DOMAIN @ |-> @[i] - AgentClockStep],
       !.intervals = [i \in DOMAIN @ |-> @[i] - AgentClockStep]])

AgentReceive(data) ==
  /\ agent.ws = "OPEN"
  /\ AgentStep(agentOnMessage(Quiet(agent), data))

\* the relay goes down or comes up
ReachabilityChange ==
  /\ agent.validUrl
  /\ AgentStep([Quiet(agent) EXCEPT !.reachable = ~@])

AgentNext ==
  \/ Start
  \/ DialOpen
  \/ DialFail
  \/ LinkClose
  \/ ReconnectTimerFires
  \/ HeartbeatTimerFires
  \/ AgentTick
  \/ \E data \in ReceivedData : AgentReceive(data)
  \/ ReachabilityChange

AgentSpec == AgentInit /\ [][AgentNext]_vars

\* the process starts, time passes, a due timer fires, a dial ends
AgentFairness ==
  /\ WF_vars(Start)
  /\ WF_vars(AgentTick)
  /\ WF_vars(ReconnectTimerFires)
  /\ WF_vars(HeartbeatTimerFires)
  /\ WF_vars(DialOpen \/ DialFail)

AgentFairSpec == AgentSpec /\ AgentFairness

(* ------------- relay and agent exchange heartbeat frames -------------- *)
\* the number of frames of an exchange that are followed
MaxFrames == 8

\* a frame on its way to the relay or to the agent
Wire(to, frame) == [to |-> to, frame |-> frame]

\* the agent is on link l of the relay. The exchange starts with the
\* heartbeat frames of one firing of the relay's heartbeat interval, or of
\* the agent's heartbeat timer
Exchange(S, A, l, origin) ==
  LET r == relayHeartbeatTimerFires(S, HandlerNow)
      onLink == SelectSeq(r.sent, LAMBDA s : s.ws = l)
      B == IF A.heartbeatTimer THEN heartbeatTimerFires(Quiet(A), 1)
           ELSE Quiet(A)
      wire == IF origin = "relay"
              THEN [i \in 1..Len(onLink) |-> Wire("agent", onLink[i].frame)]
              ELSE [i \in 1..Len(B.sent) |-> Wire("relay", B.sent[i])]
  IN [op |-> "exchange", origin |-> origin, ws |-> l,
      relay |-> IF origin = "relay" THEN r.state ELSE S,
      agent |-> IF origin = "relay" THEN A ELSE B,
      wire |-> wire, first |-> Len(wire), frames |-> Len(wire)]

Exchanges ==
  { Exchange(S, A, l, origin) :
      S \in HandlerStates, A \in AgentLinkStates, l \in Links,
      origin \in {"relay", "agent"} }

ExchangeInit == RelayInit /\ call \in Exchanges /\ agent = NewClient(TRUE)

\* the relay receives the frame at the head of the wire
RelayReceives ==
  /\ call.op = "exchange" /\ call.wire # <<>> /\ Head(call.wire).to = "relay"
  /\ call.frames < MaxFrames
  /\ LET r == relayOnMessage(call.relay, call.ws, Parsed(Head(call.wire).frame),
                             HandlerNow, TRUE, MintedId)
         sent == SelectSeq(r.sent, LAMBDA s : s.ws = call.ws)
     IN call' = [call EXCEPT
                   !.relay = r.state,
                   !.wire = Tail(@) \o [i \in 1..Len(sent) |->
                                         Wire("agent", sent[i].frame)],
                   !.frames = @ + Len(sent)]
  /\ UNCHANGED <<relayVars, agent>>

\* the agent receives the frame at the head of the wire
AgentReceives ==
  /\ call.op = "exchange" /\ call.wire # <<>> /\ Head(call.wire).to = "agent"
  /\ call.frames < MaxFrames
  /\ LET B == agentOnMessage(Quiet(call.agent), Parsed(Head(call.wire).frame))
     IN call' = [call EXCEPT
                   !.agent = B,
                   !.wire = Tail(@) \o [i \in 1..Len(B.sent) |->
                                         Wire("relay", B.sent[i])],
                   !.frames = @ + Len(B.sent)]
  /\ UNCHANGED <<relayVars, agent>>

ExchangeNext ==
  \/ RelayReceives
  \/ AgentReceives

ExchangeSpec == ExchangeInit /\ [][ExchangeNext]_vars

\* a frame on the wire is delivered
ExchangeFairSpec == ExchangeSpec /\ WF_vars(ExchangeNext)

(* ------------- the agent's link under an explicit disconnect ---------- *)
\* the owner of the TunnelWebSocketClient calls disconnect() and goes on
\* running
Disconnect ==
  /\ agent.ws # "null" \/ agent.reconnectTimer
  /\ AgentStep(disconnect(Quiet(agent)))

\* the socket closed by disconnect() emits 'close'
DetachedClose ==
  /\ agent.detached
  /\ AgentStep(onDetachedClose(Quiet(agent)))

DisconnectNext ==
  \/ AgentNext
  \/ Disconnect
  \/ DetachedClose

DisconnectSpec == AgentInit /\ [][DisconnectNext]_vars



(* ======================= properties of the relay ====================== *)
\* the records of a registry
Records(c) == {c[i] : i \in 1..Len(c)}

\* a step in which the relay unregisters: a link closes or errors, a register
\* frame is handled (its cleanup), or the heartbeat sweep runs
UnregisterStep ==
  \/ \E l \in Links : OnClose(l) \/ OnSocketError(l)
  \/ \E l \in Links, id \in ClientIds : handleRegister(l, id)
  \/ Sweep

(* ---------------------------------- C1 -------------------------------- *)
C1_OnePerId ==
  \A i, j \in 1..Len(clients) :
    /\ clients[i].connected
    /\ clients[i].id = clients[j].id => i = j

C1_OldRecordRemovedFirst ==
  \A l \in Links, id \in ClientIds :
    handleRegister(l, id) /\ HasClient(clients, id)
      => ~HasClient(
            unregisterClient(RelayState, getClient(clients, id).ws).clients, id)

\* C1, as stated: the registry holds at most one record per agent id, every
\* record with connected = TRUE, and when a register frame names an id that
\* already has a record, the cleanup of registerClient has removed that old
\* record from the registry before the new record is stored.
C1_RegistryOnePerIdOldRemoved ==
  []C1_OnePerId /\ [][C1_OldRecordRemovedFirst]_vars

(* ---------------------------------- C2 -------------------------------- *)
C2_AtMostOnce == \A r \in ReqIds : Len(completed[r]) <= 1

C2_ExactlyOnceWhenLeft ==
  \A r \in ReqIds :
    dispatchedTo[r] # NotDispatched /\ r \notin DOMAIN pendingRequests
      => Len(completed[r]) = 1

C2_NoOpWhenNotPending ==
  \A r \in 0..MaxReqs :
    r \notin DOMAIN pendingRequests
      => /\ \A p \in ResponsePayloads :
              resolveRequest(RelayState, r, p) = RelayState
         /\ \A p \in ErrorPayloads :
              rejectRequest(RelayState, r, ErrorMessage(p)) = RelayState

\* C2, as stated: resolve / reject of a pending request is invoked at most
\* once, a request that was added to the pending table and has left it has had
\* exactly one of them invoked, and resolveRequest / rejectRequest for an id
\* that is not pending change nothing.
C2_CompletedExactlyOnce ==
  C2_AtMostOnce /\ C2_ExactlyOnceWhenLeft /\ C2_NoOpWhenNotPending

(* ---------------------------------- C3 -------------------------------- *)
\* the record request r was dispatched to is still registered (a record that
\* replaced it would not count the request), the only record of its link
C3_RecordStands(r) ==
  LET d == dispatchedTo[r] IN
  /\ HasClient(clients, d.clientId)
  /\ getClient(clients, d.clientId).ws = d.ws
  /\ getClient(clients, d.clientId).requestCount > 0
  /\ \A rec \in Records(clients) : rec.ws = d.ws => rec.id = d.clientId

\* no frame for request r has been handled and its timer has not fired
C3_NoFrameNoTimeout(r) ==
  \/ r \in DOMAIN pendingRequests
  \/ completed[r] = <<Call("reject", "Client disconnected")>>

C3_ResponsePassedThrough ==
  \A l \in Links : \A m \in toRelay[l] :
    /\ m.type = "response"
    /\ handleResponse(l, m)
    /\ dispatchedTo[m.id].ws = l
    /\ dispatchedTo[m.id].caller = "proxy"
    /\ C3_RecordStands(m.id)
    /\ C3_NoFrameNoTimeout(m.id)
    => httpResp'[m.id] =
         HttpResponse(m.payload.statusCode, "", "", m.payload.body)

\* C3, as stated, at the step where the relay handles the answer: when the
\* agent a proxied request was dispatched to is still registered on its open
\* link and its response frame for the request is handled before the
\* request's timer has fired, the HTTP caller receives exactly the status
\* code and the body of that frame.
C3_AnsweredRequestGetsResponse == [][C3_ResponsePassedThrough]_vars

(* ---------------------------------- C4 -------------------------------- *)
C4_RecordsAndRequestsGone ==
  \A l \in Links :
    OnClose(l) \/ OnSocketError(l)
      => /\ \A rec \in Records(clients') : rec.ws # l
         /\ \A r \in DOMAIN pendingRequests :
              dispatchedTo[r].ws = l
                => /\ r \notin DOMAIN pendingRequests'
                   /\ completed'[r] =
                        <<Call("reject", "Client disconnected")>>

\* C4, as stated: when a link closes or errors, no record bound to that link
\* remains in the registry, and every request that was pending for the agent
\* of that link has been rejected with 'Client disconnected' and removed from
\* the pending table.
C4_CloseRemovesAgent == [][C4_RecordsAndRequestsGone]_vars

(* ---------------------------------- C5 -------------------------------- *)
C5_OthersStayPending ==
  \A r \in DOMAIN pendingRequests : \A l \in Links :
    LET d == dispatchedTo[r] IN
    /\ OnClose(l) \/ OnSocketError(l)
    /\ d.ws # l
    /\ HasClient(clients, d.clientId)
    /\ getClient(clients, d.clientId).ws = d.ws
    => /\ r \in DOMAIN pendingRequests'
       /\ r \in DOMAIN timers'
       /\ timers'[r] = timers[r]

\* C5, as stated: when the link of an agent A closes or errors, so that A is
\* unregistered, every request pending for an agent B that is registered on
\* another link stays in the pending table with its timer armed.
C5_UnregisterRejectsOnlyOwn == [][C5_OthersStayPending]_vars

(* ---------------------------------- C6 -------------------------------- *)
C6_OldLinkNotOpen ==
  \A l \in Links, id \in ClientIds :
    /\ handleRegister(l, id)
    /\ HasClient(clients, id)
    /\ getClient(clients, id).ws # l
    /\ wsState[getClient(clients, id).ws] = "OPEN"
    => wsState'[getClient(clients, id).ws] # "OPEN"

\* C6, as stated: when a register frame on one link names an id whose record
\* is bound to another, open link, the relay closes that old link in the same
\* step.
C6_DisplacementClosesOldLink == [][C6_OldLinkNotOpen]_vars

(* ---------------------------------- C7 -------------------------------- *)
C7_RegisterBinds ==
  \A l \in Links, id \in ClientIds :
    wsState[l] = "OPEN"
      => LET c == registerClient(RelayState, id, l, now).clients
         IN HasClient(c, id) /\ getClient(c, id).ws = l

C7_RequestGoesToHolder ==
  nextReq' = nextReq + 1 =>
    \A id \in ClientIds :
      /\ HasClient(clients, id)
      /\ getClient(clients, id).took # 0
      /\ HttpRequestSpecific(id)
      => LET rec == getClient(clients, id)
             frame == TunnelMessage(nextReq + 1, "request", id,
                                    HttpRequestPayload)
         IN /\ rec.ws # rec.took
            /\ wsState[rec.ws] = "OPEN" => frame \in toAgent'[rec.ws]
            /\ \A l \in Links \ {rec.ws} : toAgent'[l] = toAgent[l]

\* C7: a register frame handled on an open link binds its id to that link,
\* and while the record of an id is one that a second link registered over a
\* first link's record, a request addressed to /client/{id}/... is sent as a
\* request frame on the second link and no frame is sent on the first or any
\* other link.
C7_RequestsGoToNewestRegistrant ==
  []C7_RegisterBinds /\ [][C7_RequestGoesToHolder]_vars

\* a request frame for an id sits on the link that took the id over from
\* another link, which is still open
C7_Witness ==
  \E l \in Links : \E f \in toAgent[l] :
    /\ f.type = "request"
    /\ HasClient(clients, f.clientId)
    /\ LET rec == getClient(clients, f.clientId)
       IN /\ rec.ws = l
          /\ rec.took \in Links \ {l}
          /\ rec.requestCount > 0
          /\ wsState[rec.took] = "OPEN"

(* ---------------------------------- C8 -------------------------------- *)
\* the requests a step takes out of the pending table
Leaving == (DOMAIN pendingRequests) \ (DOMAIN pendingRequests')

C8_FrameCompletesOwnId ==
  pendingRequests' # pendingRequests /\ nextReq' = nextReq =>
    \A l \in Links :
      /\ \A m \in Inbound(l, "response") :
           handleResponse(l, m) => \A r \in Leaving : r = m.id
      /\ \A m \in Inbound(l, "error") :
           handleError(l, m) => \A r \in Leaving : r = m.id

C8_RequestFrameCarriesId ==
  nextReq' = nextReq + 1 =>
    \A l \in Links : \A f \in toAgent'[l] \ toAgent[l] :
      /\ f.type = "request"
      /\ f.id \in (DOMAIN pendingRequests') \ (DOMAIN pendingRequests)
      /\ pendingRequests'[f.id].id = f.id

C8_AnswerCarriesId ==
  toRelay' # toRelay =>
    \A l \in Links : \A m \in toRelay'[l] \ toRelay[l] :
      /\ m.type \in {"response", "error"}
      /\ \E f \in toAgent[l] \ toAgent'[l] :
           f.type = "request" /\ f.id = m.id

C8_EntryKeyedById ==
  \A r \in DOMAIN pendingRequests : pendingRequests[r].id = r

\* C8: a response or error frame takes out of the pending table only the
\* entry whose request id equals the frame's id; the request frame the relay
\* sends carries the id under which the pending entry was stored; and the
\* answer frame the agent sends carries the id of the request frame it
\* answers.
C8_IdsCorrelate ==
  /\ []C8_EntryKeyedById
  /\ [][C8_FrameCompletesOwnId /\ C8_RequestFrameCarriesId
        /\ C8_AnswerCarriesId]_vars

\* a dispatched request has been resolved by a response frame after its
\* agent took the request frame and answered it
C8_Witness ==
  \E r \in ReqIds :
    /\ dispatchedTo[r] # NotDispatched
    /\ completed[r] = <<Call("resolve", "")>>
    /\ httpResp[r].status = 200
    /\ wsState[dispatchedTo[r].ws] = "OPEN"
    /\ toAgent[dispatchedTo[r].ws] = {}
    /\ toRelay[dispatchedTo[r].ws] = {}

(* ---------------------------------- C9 -------------------------------- *)
\* the age of a record's last heartbeat exceeds the heartbeat timeout
Stale(rec) == now - rec.lastHeartbeat > heartbeatTimeout

C9_AfterSweep ==
  clients' # clients /\ now' = now /\ Sweep =>
    /\ \A rec \in Records(clients') : ~Stale(rec)
    /\ \A rec \in Records(clients) : ~Stale(rec) => rec \in Records(clients')
    /\ \A r \in DOMAIN pendingRequests :
         LET d == dispatchedTo[r] IN
         /\ HasClient(clients, d.clientId)
         /\ getClient(clients, d.clientId).ws = d.ws
         /\ Stale(getClient(clients, d.clientId))
         => /\ r \notin DOMAIN pendingRequests'
            /\ completed'[r] = <<Call("reject", "Client disconnected")>>

\* C9, as stated: after a run of checkHeartbeats no record older than 90 s
\* remains in the registry, a record whose age is at most 90 s (exactly 90 s
\* included) is kept, and every request pending for a removed agent has been
\* rejected.
C9_SweepRemovesStaleOnly == [][C9_AfterSweep]_vars

(* ---------------------------------- C10 ------------------------------- *)
\* the step handles a response or error frame that carries the id r
FrameFor(r) ==
  \E l \in Links :
    \/ \E m \in Inbound(l, "response") : m.id = r /\ handleResponse(l, m)
    \/ \E m \in Inbound(l, "error") : m.id = r /\ handleError(l, m)

C10_TimerArmed ==
  \A r \in DOMAIN pendingRequests :
    /\ r \in DOMAIN timers
    /\ timers[r] = pendingRequests[r].timestamp + requestTimeout

C10_LeavesByTimeout ==
  pendingRequests' # pendingRequests /\ nextReq' = nextReq =>
    \A r \in Leaving :
      ~FrameFor(r) /\ ~UnregisterStep
        => /\ now >= pendingRequests[r].timestamp + requestTimeout
           /\ completed'[r] = <<Call("reject", "Request timeout")>>
           /\ httpResp'[r] =
                HttpResponse(500, "Proxy error", "Request timeout", "")

C10_EventuallyLeaves ==
  \A r \in ReqIds :
    (r \in DOMAIN pendingRequests) ~> (r \notin DOMAIN pendingRequests)

\* C10: every pending request has a timer armed for 30 s after it was added;
\* a request that leaves the pending table in a step that handles no response
\* or error frame for it and unregisters no agent leaves it at or after that
\* deadline, rejected with 'Request timeout', and its HTTP caller receives
\* status 500 with error 'Proxy error' and message 'Request timeout'; and
\* every request added to the pending table eventually leaves it.
C10_RequestTimesOut ==
  /\ []C10_TimerArmed
  /\ [][C10_LeavesByTimeout]_vars
  /\ C10_EventuallyLeaves

C10_LeavesByTimeoutPerRoute ==
  pendingRequests' # pendingRequests /\ nextReq' = nextReq =>
    \A r \in Leaving :
      ~FrameFor(r) /\ ~UnregisterStep
        => /\ now >= pendingRequests[r].timestamp + requestTimeout
           /\ completed'[r] = <<Call("reject", "Request timeout")>>
           /\ dispatchedTo[r].caller = "proxy" =>
                httpResp'[r] =
                  HttpResponse(500, "Proxy error", "Request timeout", "")
           /\ dispatchedTo[r].caller = "health" =>
                httpResp'[r] =
                  HttpResponse(503, "Request timeout", "", "unhealthy")

\* C10, as the program has it: the timer, the rejection with 'Request
\* timeout' at or after the deadline and the eventual leaving as above; the
\* caller of a proxied request then receives HTTP 500 with error 'Proxy
\* error' and message 'Request timeout', the caller of GET
\* /client/{id}/health receives HTTP 503 with status 'unhealthy' and error
\* 'Request timeout'.
C10_RequestTimesOutPerRoute ==
  /\ []C10_TimerArmed
  /\ [][C10_LeavesByTimeoutPerRoute]_vars
  /\ C10_EventuallyLeaves

\* a request has been rejected by its timer and answered with the 500
C10_Witness ==
  \E r \in ReqIds :
    /\ completed[r] = <<Call("reject", "Request timeout")>>
    /\ httpResp[r] = HttpResponse(500, "Proxy error", "Request timeout", "")
    /\ now >= requestTimeout


(* ---------------------------------- C17 ------------------------------- *)
\* the request leaves the pending table, the wire and the registry (and so
\* every request_count) as they were
NoEffect ==
  /\ pendingRequests' = pendingRequests
  /\ timers' = timers
  /\ toAgent' = toAgent
  /\ clients' = clients

C17_Fails500 ==
  nextReq' = nextReq + 1 =>
    \A id \in ClientIds :
      ~HasClient(clients, id) /\ (HttpRequestSpecific(id) \/ HttpHealthCheck(id))
        => /\ httpResp'[nextReq'].status = 500
           /\ httpResp'[nextReq'].message = NotFoundMessage(id)
           /\ NoEffect

\* C17: a request addressed to /client/{id}/..., GET /client/{id}/health
\* included, while the registry holds no record for {id} fails with HTTP 500
\* and the message "Client '<id>' not found"; it creates no pending record,
\* sends no frame and changes no agent's request_count.
C17_UnknownAgentFailsWith500 == [][C17_Fails500]_vars

C17_Fails500Or503 ==
  nextReq' = nextReq + 1 =>
    \A id \in ClientIds :
      /\ ~HasClient(clients, id) /\ HttpRequestSpecific(id)
           => /\ httpResp'[nextReq'].status = 500
              /\ httpResp'[nextReq'].error = "Proxy error"
              /\ httpResp'[nextReq'].message = NotFoundMessage(id)
              /\ NoEffect
      /\ ~HasClient(clients, id) /\ HttpHealthCheck(id)
           => /\ httpResp'[nextReq'].status = 503
              /\ httpResp'[nextReq'].body = "unhealthy"
              /\ httpResp'[nextReq'].error = NotFoundMessage(id)
              /\ NoEffect

\* C17, as the program has it: through the proxy route the request fails
\* with HTTP 500 and the message "Client '<id>' not found"; GET
\* /client/{id}/health fails with HTTP 503, status "unhealthy", the same text
\* in the field error; neither creates a pending record, sends a frame or
\* changes a request_count.
C17_UnknownAgentFailsWith500Or503 == [][C17_Fails500Or503]_vars

\* an agent has come and gone, and a health check of an id without record
\* has been answered
C17_Witness ==
  /\ \E l \in Links : wsState[l] = "CLOSED"
  /\ \E r \in 1..nextReq, id \in ClientIds :
       /\ httpResp[r] = Unhealthy(NotFoundMessage(id))
       /\ ~HasClient(clients, id)
       /\ r \notin DOMAIN pendingRequests


(* ---------------------------------- C18 ------------------------------- *)
C18_Refused ==
  nextReq' = nextReq + 1 =>
    (getConnectedClients(clients) = <<>> /\ HttpRequestBalanced
       => /\ httpResp'[nextReq'].status = 500
          /\ httpResp'[nextReq'].message = "No connected clients available"
          /\ pendingRequests' = pendingRequests
          /\ timers' = timers
          /\ toAgent' = toAgent)

\* C18: a request to a path outside /client/ while no agent is connected is
\* refused with the message "No connected clients available", surfaced as
\* HTTP 500; no pending record is created and no frame is sent.
C18_NoAgentRefused == [][C18_Refused]_vars

\* such a request has been refused after the only agent left
C18_Witness ==
  /\ clients = <<>>
  /\ \E l \in Links : wsState[l] = "CLOSED"
  /\ \E r \in 1..nextReq :
       /\ httpResp[r] = ProxyError("No connected clients available")
       /\ r \notin DOMAIN pendingRequests
       /\ dispatchedTo[r] = NotDispatched
  /\ \A l \in Links : toAgent[l] = {}


(* ================ properties of the mapping resolver ================== *)
\* a parseRoute call that has returned
Resolved == call.op = "parseRoute" /\ call.done

\* the part of a /client/{id} path the resolver matches mappings against
RemainderOf(path) ==
  IF clientRouteMatch(path).rest = <<>> THEN Slash
  ELSE clientRouteMatch(path).rest

\* prefix matches path on a segment boundary, the leading slash stripped:
\* the path is the prefix, or goes on with "/" after it
MatchesAtBoundary(path, prefix) ==
  LET cleanPath == IF startsWith(path, Slash) THEN substring(path, 1) ELSE path
  IN cleanPath = prefix \/ startsWith(cleanPath, prefix \o Slash)

(* ---------------------------------- C11 ------------------------------- *)
\* C11: the mapping the resolver chooses for a rewritten path matches that
\* path on a segment boundary; a prefix that is only a string prefix of the
\* first segment (api against /apiary/x) is not chosen.
C11_ChosenMatchesAtBoundary ==
  Resolved /\ call.out.mapping # NoMapping
    => MatchesAtBoundary(RemainderOf(call.in.path), call.out.mapping.prefix)

(* ---------------------------------- C12 ------------------------------- *)
\* a parseRoute call for a path under /client/{id} whose agent is registered
ResolvedFor ==
  /\ Resolved
  /\ clientRouteMatch(call.in.path).matched
  /\ HasClient(call.in.registry, clientRouteMatch(call.in.path).id)

\* the mapping table of the agent the call's path names
TableOf ==
  getClient(call.in.registry, clientRouteMatch(call.in.path).id).mappings

\* the mappings of that table that pass the resolver's filter
Candidates ==
  LET cleanPath == substring(RemainderOf(call.in.path), 1)
  IN { TableOf[i] : i \in { j \in 1..Len(TableOf) :
                              prefixFilter(cleanPath, TableOf[j]) } }

\* the same mappings in another order
Reorderings ==
  { t \in MappingTables :
      Len(t) = Len(TableOf)
      /\ {t[i] : i \in 1..Len(t)} = {TableOf[i] : i \in 1..Len(TableOf)} }

\* C12: among the mappings that match the path the one with the longest
\* prefix is chosen, whatever the order of the table: with unique prefixes
\* every order of the same mappings gives the same route, and a mapping that
\* matches on a segment boundary is the one chosen.
C12_LongestPrefixWins ==
  ResolvedFor =>
    /\ (Candidates = {}) = (call.out.mapping = NoMapping)
    /\ Candidates # {} =>
         /\ call.out.mapping \in Candidates
         /\ \A m \in Candidates :
              Len(call.out.mapping.prefix) >= Len(m.prefix)
    /\ \A t \in Reorderings :
         parseRoute(call.in.path, [call.in.registry EXCEPT ![1].mappings = t])
           = call.out
    /\ \A i \in 1..Len(TableOf) :
         MatchesAtBoundary(RemainderOf(call.in.path), TableOf[i].prefix)
           => call.out.mapping = TableOf[i]

\* two mappings match and the shorter one comes first in the table
C12_Witness ==
  /\ ResolvedFor
  /\ Cardinality(Candidates) >= 2
  /\ TableOf[1] \in Candidates
  /\ call.out.mapping # TableOf[1]
  /\ MatchesAtBoundary(RemainderOf(call.in.path), call.out.mapping.prefix)

(* ---------------------------------- C13 ------------------------------- *)
\* path is /client/{id}{rest}: id is not empty and has no "/", rest is empty
\* or begins with "/"
IsClientPath(path, id, rest) ==
  /\ path = ClientLit \o id \o rest
  /\ id # <<>>
  /\ \A i \in 1..Len(id) : id[i] # "/"
  /\ rest = <<>> \/ Head(rest) = "/"

\* what resolving rest against the mappings of agent id gives
ResolutionOf(c, id, rest) ==
  LET table == IF HasClient(c, id) THEN getClient(c, id).mappings ELSE <<>>
      best == findBestMapping(rest, table)
  IN RouteInfo(id,
               IF best = NoMapping THEN rest
               ELSE stripMappingPrefix(rest, best.prefix),
               "specific", best)

\* C13: a request whose path is exactly /client/{id} goes to agent {id} with
\* the rewritten path "/"; in general /client/{id}{rest} pins agent {id} and
\* resolves {rest}, "/" when it is empty, against that agent's mappings.
C13_ClientPathPinsAgent ==
  Resolved =>
    \A k \in 1..(Len(call.in.path) - Len(ClientLit)) :
      LET id == SubSeq(call.in.path, Len(ClientLit) + 1, Len(ClientLit) + k)
          rest == SubSeq(call.in.path, Len(ClientLit) + k + 1,
                         Len(call.in.path))
      IN IsClientPath(call.in.path, id, rest) =>
           /\ call.out.clientId = id
           /\ call.out.routeType = "specific"
           /\ rest = <<>> =>
                call.out.targetPath = Slash /\ call.out.mapping = NoMapping
           /\ call.out =
                ResolutionOf(call.in.registry, id,
                             IF rest = <<>> THEN Slash ELSE rest)

\* /client/a, no trailing slash, agent a registered with mappings
C13_Witness ==
  /\ Resolved
  /\ call.in.path = ClientLit \o <<"a">>
  /\ HasClient(call.in.registry, <<"a">>)
  /\ Len(getClient(call.in.registry, <<"a">>).mappings) > 0
  /\ call.out.clientId = <<"a">>
  /\ call.out.targetPath = Slash

(* ---------------------------------- C14 ------------------------------- *)
\* an onRequest call that has returned
Handled == call.op = "onRequest" /\ call.done

\* C14: when no mapping of the pinned agent matches the rewritten path (in
\* particular when its list is empty) the request frame carries no target
\* annotation and the path after /client/{id} unchanged; and an agent handed
\* a frame without annotation uses its default target.
C14_NoMatchNoAnnotation ==
  /\ ResolvedFor
       /\ (\A i \in 1..Len(TableOf) :
             ~MatchesAtBoundary(RemainderOf(call.in.path), TableOf[i].prefix))
       => /\ requestPayloadOf(call.out).targetMapping = "none"
          /\ requestPayloadOf(call.out).path = RemainderOf(call.in.path)
  /\ Handled /\ call.in.frame.payload.present
       /\ call.in.frame.payload.targetMapping = "none"
       => call.out.base = HttpClient(LOCAL_TARGET)

(* ---------------------------------- C15 ------------------------------- *)
\* a sanitizeHeaders call that has returned
Sanitized == call.op = "sanitizeHeaders" /\ call.done

\* the inbound headers outside the deny-list (an entry whose value is
\* undefined is no header)
Forwardable ==
  { i \in 1..Len(call.in.headers) :
      /\ toLowerCase(call.in.headers[i].key) \notin skipHeaders
      /\ call.in.headers[i].value.kind # "undefined" }

\* the last of the values of a header
LastValue(value) == <<value.items[Len(value.items)]>>

\* str is the items in order with ", " between them
IsJoined(str, items) ==
  /\ Len(str) = 2 * Len(items) - 1
  /\ \A k \in 1..Len(items) : str[2 * k - 1] = items[k]
  /\ \A k \in 1..(Len(items) - 1) : str[2 * k] = ", "

C15_NoDenyListed ==
  \A j \in 1..Len(call.out) : toLowerCase(call.out[j].key) \notin skipHeaders

\* C15: the headers of the request frame contain no header whose lower-cased
\* name is in the deny-list, and every other inbound header with its value
\* preserved, the last value winning when the name is duplicated.
C15_OthersKeptLastValueWins ==
  Sanitized =>
    /\ C15_NoDenyListed
    /\ \A i \in Forwardable :
         \E j \in 1..Len(call.out) :
           /\ call.out[j].key = call.in.headers[i].key
           /\ call.out[j].value = LastValue(call.in.headers[i].value)

\* C15, as the program has it: no deny-listed name; every other inbound
\* header is there under its own name, a string value unchanged and the
\* values of a multi-valued header joined with ", "; and nothing else.
C15_OthersKeptValuesJoined ==
  Sanitized =>
    /\ C15_NoDenyListed
    /\ \A i \in Forwardable :
         \E j \in 1..Len(call.out) :
           /\ call.out[j].key = call.in.headers[i].key
           /\ IF call.in.headers[i].value.kind = "array"
              THEN IsJoined(call.out[j].value, call.in.headers[i].value.items)
              ELSE call.out[j].value = call.in.headers[i].value.items
    /\ Len(call.out) = Cardinality(Forwardable)

\* a deny-listed name written in capitals beside a multi-valued header
C15_Witness ==
  /\ Sanitized
  /\ \E i \in 1..Len(call.in.headers) :
       /\ call.in.headers[i].key \notin skipHeaders
       /\ toLowerCase(call.in.headers[i].key) \in skipHeaders
       /\ call.in.headers[i].value.kind # "undefined"
  /\ \E i \in Forwardable : call.in.headers[i].value.kind = "array"
  /\ Len(call.out) = 1

(* ---------------------------------- C16 ------------------------------- *)
\* a request with a query, for a path under /client/a/ while agent a is
\* registered, that has gone its way
Forwarded ==
  /\ call.op = "forward" /\ call.done
  /\ Len(call.in.query) > 0
  /\ HasClient(call.in.registry, <<"a">>)
  /\ startsWith(call.in.pathname, ClientLit \o <<"a">> \o Slash)

\* how many times piece occurs in str
Occurrences(str, piece) == Cardinality({i \in 1..Len(str) : str[i] = piece})

\* C16: for a request URL with a query string the path of the request frame
\* is the rewritten path without the query string, the query is carried only
\* in the query field, and the URL the agent calls contains each query
\* parameter exactly once.
C16_QueryOnlyInQueryField ==
  Forwarded =>
    /\ call.out.found
    /\ call.out.payload.path =
         parseRoute(call.in.pathname, call.in.registry).targetPath
    /\ Occurrences(call.out.payload.path, "?") = 0
    /\ call.out.payload.query = call.in.query
    /\ \A i \in 1..Len(call.in.query) :
         Occurrences(call.out.url, call.in.query[i].key) = 1

(* ---------------------------------- C19 ------------------------------- *)
\* the payload of the frame has what the handler reads
WellFormed(frame) == frame.payload.present /\ frame.payload.path # Undefined

\* C19: for every request frame the agent receives while its link stays
\* open it sends exactly one answer frame with the same id: a response frame
\* when the local call completes, times out or fails at the transport (then
\* a synthesized 503), an error frame only on a failure inside the handler.
C19_ExactlyOneAnswer ==
  Handled /\ call.in.open =>
    /\ Len(call.out.sent) = 1
    /\ call.out.sent[1].id = call.in.frame.id
    /\ call.out.sent[1].type \in {"response", "error"}
    /\ call.out.sent[1].type = "error" => ~WellFormed(call.in.frame)
    /\ WellFormed(call.in.frame) /\ call.in.outcome.kind # "completed"
         => call.out.sent[1].payload.statusCode = 503

(* ---------------------------------- C20 ------------------------------- *)
\* a handleHeartbeat call of the agent that has returned, the link open
HeartbeatHandled ==
  call.op = "handleHeartbeat" /\ call.done /\ call.in.open

\* C20: the agent answers every inbound heartbeat frame with a frame of
\* kind pong that echoes the id of the heartbeat.
C20_AnswersPong ==
  HeartbeatHandled =>
    /\ Len(call.out) = 1
    /\ call.out[1].type = "pong"
    /\ call.out[1].id = call.in.frame.id

\* C20, as the program has it: the agent answers every inbound heartbeat
\* frame with one frame of kind heartbeat that echoes the id of the
\* heartbeat and carries the agent's own clientId.
C20_AnswersHeartbeat ==
  HeartbeatHandled =>
    /\ Len(call.out) = 1
    /\ call.out[1].type = "heartbeat"
    /\ call.out[1].id = call.in.frame.id
    /\ call.out[1].clientId = call.in.clientId

\* a heartbeat under an id other than 0 has been answered
C20_Witness ==
  /\ HeartbeatHandled
  /\ call.in.frame.id # 0
  /\ call.out # <<>>


(* =================== properties of the agent's link =================== *)
\* the reconnect timers of the event loop
ReconnectTimers == agent.timeouts

\* a reconnect timer is created
ReconnectScheduled == Len(agent.timeouts') > Len(agent.timeouts)

\* the agent has no open link and is not dialling
LinkDown == agent.ws \in {"CLOSED", "null"} /\ agent.timeouts # <<>>

\* at most one reconnect timer is pending, and none runs longer than
\* reconnect_interval
C21_OneTimer ==
  /\ Len(ReconnectTimers) <= 1
  /\ \A i \in DOMAIN ReconnectTimers : ReconnectTimers[i] <= reconnectInterval

\* every reconnect timer is created with the delay reconnect_interval
C21_FixedInterval ==
  ReconnectScheduled =>
    agent.timeouts'[Len(agent.timeouts')] = reconnectInterval

\* C21: whenever the agent's link closes or a dial fails, a reconnect attempt
\* is eventually made; its timer is set to the fixed reconnect_interval after
\* every failure, at most one reconnect timer is pending at any time, and an
\* agent whose relay is reachable eventually has an open link (or the relay
\* has become unreachable again)
C21_ReconnectsAtFixedInterval ==
  /\ []C21_OneTimer
  /\ [][C21_FixedInterval]_vars
  /\ \A k \in {0, 1} :
       (LinkDown /\ agent.dials = k) ~> (agent.dials # k)
  /\ (agent.reachable /\ agent.ws # "OPEN")
       ~> (agent.ws = "OPEN" \/ ~agent.reachable)

\* the link is open again after a close and a reconnect
C21_Witness ==
  /\ agent.ws = "OPEN"
  /\ agent.dials = 0
  /\ agent.timeouts = <<>>

\* the heartbeats the agent sent on its open link have gone unanswered
HeartbeatMiss == agent.ws = "OPEN" /\ agent.unanswered >= MaxMissed

\* C22: when the agent's heartbeats go unanswered, the agent eventually drops
\* the link (from where it reconnects as after a transport error), unless a
\* pong arrives after all
C22_HeartbeatMissCloses ==
  HeartbeatMiss ~> (agent.ws # "OPEN" \/ agent.unanswered = 0)


(* ==================== properties of the dispatcher ==================== *)
Selected == call.op = "selectClient" /\ call.done

\* the path starts with /client/{id}
StartsWithClientId(path) ==
  /\ startsWith(path, ClientLit)
  /\ Len(path) > Len(ClientLit)
  /\ path[Len(ClientLit) + 1] # "/"

\* the registry position of the selected client
SelectedAt(i) == call.in.registry[i] = call.out.client

\* C23: for a path that does not start with /client/{id} the dispatcher
\* selects the connected agent with the smallest request_count, and among
\* agents with equal counts the first in registration order
C23_LeastLoadedFirstWins ==
  (Selected /\ ~StartsWithClientId(call.in.path) /\ call.in.registry # <<>>)
    => /\ ~call.out.threw
       /\ \E i \in DOMAIN call.in.registry :
            /\ SelectedAt(i)
            /\ call.in.registry[i].connected
            /\ \A j \in DOMAIN call.in.registry :
                 /\ call.in.registry[j].requestCount
                      >= call.in.registry[i].requestCount
                 /\ j < i => call.in.registry[j].requestCount
                               > call.in.registry[i].requestCount

\* two of three agents tie for the smallest count and the first of the two,
\* which is not the first registered, is selected
C23_Witness ==
  /\ Selected /\ ~StartsWithClientId(call.in.path)
  /\ Len(call.in.registry) = 3
  /\ call.in.registry[1].requestCount > call.in.registry[2].requestCount
  /\ call.in.registry[2].requestCount = call.in.registry[3].requestCount
  /\ SelectedAt(2)


(* =================== properties of the operator API =================== *)
Got == call.op = "operatorGet" /\ call.done

\* the registry and the pending table with its timers are as they were
TablesUnchanged ==
  /\ call.out.state.clients = call.in.state.clients
  /\ call.out.state.pending = call.in.state.pending
  /\ call.out.state.timers = call.in.state.timers

\* the request frame for the new request, on the link of the agent's record
RequestFrameTo(c, clientId) ==
  OnLink(getClient(c, clientId).ws,
         TunnelMessage(NewRequest, "request", clientId, HttpRequestPayload))

\* C24: GET /health, /status, /clients, /clients/{id} and /route-info leave
\* the registry (records, request_count, last_heartbeat) and the pending table
\* unchanged and send no frame; GET /client/{id}/health for a registered agent
\* creates a pending request and sends a request frame on the agent's link
C24_OperatorReadsOnly ==
  Got =>
    IF call.in.route # "/client/:clientId/health"
    THEN TablesUnchanged /\ call.out.sent = <<>>
    ELSE (HasClient(call.in.state.clients, call.in.clientId) /\ ~call.in.throws)
           => /\ NewRequest \in DOMAIN call.out.state.pending
              /\ call.out.sent
                   = <<RequestFrameTo(call.in.state.clients, call.in.clientId)>>

\* GET /clients/{id} for a registered agent while a request is pending
C24_Witness ==
  /\ Got
  /\ call.in.route = "/clients/:clientId"
  /\ HasClient(call.in.state.clients, call.in.clientId)
  /\ call.in.state.pending # <<>>
  /\ call.out.response.status = 200


(* ================= properties of the frame handlers =================== *)
RelayHasReceived == call.op = "relayReceive" /\ call.done
AgentHasReceived == call.op = "agentReceive" /\ call.done

\* the kinds of frame each side has a handler for
RelayKinds == {"register", "response", "error", "heartbeat"}
AgentKinds == {"register", "request", "heartbeat", "pong"}

\* the frame cannot be parsed or is of a kind outside kinds
Unhandled(data, kinds) == ~data.parsable \/ data.message.type \notin kinds

\* the agent's link, registration state and timers are as they were
AgentLinkUnchanged ==
  /\ call.out.ws = call.in.agent.ws
  /\ call.out.isConnected = call.in.agent.isConnected
  /\ call.out.isRegistered = call.in.agent.isRegistered
  /\ call.out.reconnectTimer = call.in.agent.reconnectTimer
  /\ call.out.heartbeatTimer = call.in.agent.heartbeatTimer
  /\ call.out.timeouts = call.in.agent.timeouts
  /\ call.out.intervals = call.in.agent.intervals

\* C25: a frame that cannot be parsed, or whose kind the receiving side does
\* not handle, is dropped: on the relay the registry and the pending table
\* are unchanged and the link stays open; on the agent the link, the
\* registration state and the timers are unchanged
C25_UnhandledFrameDropped ==
  /\ (RelayHasReceived /\ call.in.size <= maxPayload
        /\ Unhandled(call.in.data, RelayKinds))
       => /\ call.out.state.clients = call.in.state.clients
          /\ call.out.state.pending = call.in.state.pending
          /\ call.out.state.timers = call.in.state.timers
          /\ call.out.closed = {}
  /\ (AgentHasReceived /\ call.in.size <= maxPayload
        /\ Unhandled(call.in.data, AgentKinds))
       => AgentLinkUnchanged

\* the relay, with an agent registered and a request pending, has been handed
\* a frame of a kind it does not handle that names the agent
C25_Witness ==
  /\ RelayHasReceived /\ call.in.size <= maxPayload
  /\ call.in.data.parsable /\ call.in.data.message.type = "pong"
  /\ HasClient(call.in.state.clients, call.in.data.message.clientId)
  /\ call.in.state.pending # <<>>

\* C26: a tunnel frame of exactly 10 MiB is accepted and processed, and a
\* frame one byte larger makes the receiving side close the link
C26_TenMiBFrameLimit ==
  /\ RelayHasReceived =>
       /\ call.in.size = TenMiB => call.out.closed = {}
       /\ call.in.size = TenMiB + 1 => call.out.closed = {call.in.ws}
  /\ AgentHasReceived =>
       /\ call.in.size = TenMiB => call.out.ws = "OPEN"
       /\ call.in.size = TenMiB + 1 => call.out.ws = "CLOSED"

(* ============== properties of the dispatcher's executor =============== *)
Dispatched == call.op = "dispatch" /\ call.done

\* the new request has been rejected once with the send-failure error and has
\* left the pending table, its timer cancelled; the other entries are as
\* they were
RejectedAtOnce ==
  /\ NewRequest \notin DOMAIN call.out.state.pending
  /\ NewRequest \notin DOMAIN call.out.state.timers
  /\ call.out.state.completed[NewRequest]
       = <<Call("reject", "Failed to send request to client")>>
  /\ call.out.state.pending = call.in.state.pending
  /\ call.out.state.timers = call.in.state.timers

\* C27 as stated: the pending record is added before the send is attempted,
\* and when the send fails the record is rejected at once with 'Failed to
\* send request to client' and the caller gets HTTP 500
C27_SendFailureRejects500 ==
  Dispatched =>
    /\ call.out.pendingAtSend
    /\ ~call.out.success =>
         /\ RejectedAtOnce
         /\ call.out.state.httpResp[NewRequest].status = 500

\* C27: the pending record is added before the send is attempted, and when
\* the send fails the record is rejected at once with 'Failed to send request
\* to client'; the caller of the proxy route gets HTTP 500 'Proxy error', the
\* caller of GET /client/{id}/health gets HTTP 503 'unhealthy'
C27_SendFailureRejects ==
  Dispatched =>
    /\ call.out.pendingAtSend
    /\ ~call.out.success =>
         /\ RejectedAtOnce
         /\ call.out.state.httpResp[NewRequest] =
              IF call.in.caller = "health"
              THEN HttpResponse(503, "Failed to send request to client", "",
                                "unhealthy")
              ELSE HttpResponse(500, "Proxy error",
                                "Failed to send request to client", "")
    /\ call.out.success =>
         /\ NewRequest \in DOMAIN call.out.state.pending
         /\ call.out.sent # <<>>

\* the send of a proxied request failed while another request was pending
C27_Witness ==
  /\ Dispatched /\ ~call.out.success
  /\ call.in.caller = "proxy"
  /\ call.in.state.pending # <<>>
  /\ call.out.state.httpResp[NewRequest].status = 500

(* ---------------------------------- C28 ------------------------------- *)
\* p is at the front of s
IsPrefix(p, s) == Len(p) <= Len(s) /\ SubSeq(s, 1, Len(p)) = p

\* clean without the prefix at its front, the leading "/" restored
Rewritten(clean, prefix) ==
  LET rest == SubSeq(clean, Len(prefix) + 1, Len(clean))
  IN IF rest # <<>> /\ Head(rest) = "/" THEN rest ELSE <<"/">> \o rest

\* the mappings of table whose prefix is at the front of clean
Matching(clean, table) ==
  { table[i] : i \in { j \in 1..Len(table) : IsPrefix(table[j].prefix, clean) } }

\* a request without query for a path under /client/a has been forwarded
\* while agent a is registered
ForwardedPlain ==
  /\ call.op = "forward" /\ call.done
  /\ call.in.query = <<>>
  /\ HasClient(call.in.registry, <<"a">>)

\* the path after /client/a, its leading slash stripped
CleanOf(pathname) ==
  LET rest == SubSeq(pathname, Len(ClientLit) + 2, Len(pathname))
  IN IF rest = <<>> THEN <<>> ELSE Tail(rest)

\* C28: when a mapping matches, the rewritten path is the slash-stripped path
\* with the prefix removed from its front and the leading "/" restored (the
\* prefix alone gives "/"), and the target annotation of the request frame is
\* the matched mapping's target
C28_PrefixStrippedTargetAnnotated ==
  /\ (ResolvedFor /\ call.out.mapping # NoMapping)
       => /\ IsPrefix(call.out.mapping.prefix,
                      Tail(RemainderOf(call.in.path)))
          /\ call.out.targetPath
               = Rewritten(Tail(RemainderOf(call.in.path)),
                           call.out.mapping.prefix)
  /\ ForwardedPlain =>
       \A m \in Matching(CleanOf(call.in.pathname),
                         getClient(call.in.registry, <<"a">>).mappings) :
         (\A n \in Matching(CleanOf(call.in.pathname),
                            getClient(call.in.registry, <<"a">>).mappings) :
            Len(n.prefix) <= Len(m.prefix))
           => /\ call.out.payload.path
                   = Rewritten(CleanOf(call.in.pathname), m.prefix)
              /\ call.out.payload.targetMapping = m.target

\* /client/a/a/b with the mapping a registered: the frame carries the path /b
\* and the target of a
C28_Witness ==
  /\ ForwardedPlain
  /\ call.in.pathname = ClientLit \o <<"a", "/", "a", "/", "b">>
  /\ call.out.payload.path = <<"/", "b">>
  /\ call.out.payload.targetMapping = TargetOf(<<"a">>)

(* ---------------------------------- C29 ------------------------------- *)
\* the heartbeat intervals of the event loop
HeartbeatTimers == agent.intervals

\* the last step sent a periodic heartbeat frame
HeartbeatEmitted ==
  \E i \in DOMAIN agent.sent :
    agent.sent[i].type = "heartbeat" /\ agent.sent[i].id = Uuid

\* C29: the agent emits its periodic heartbeat frames, which carry its agent
\* id, only between the receipt of a register frame with payload.confirmed =
\* true and the next close of the link: the heartbeat timer runs exactly while
\* the agent is registered on an open link, and at most one heartbeat timer
\* runs at any time, also after repeated confirmations and reconnects
C29_HeartbeatWhileRegistered ==
  /\ Len(HeartbeatTimers) <= 1
  /\ (HeartbeatTimers # <<>>) = (agent.isRegistered /\ agent.ws = "OPEN")
  /\ agent.isRegistered => agent.ws = "OPEN"
  /\ HeartbeatEmitted =>
       /\ agent.isRegistered /\ agent.ws = "OPEN"
       /\ agent.sent
            = <<TunnelMessage(Uuid, "heartbeat", configClientId, NoPayload)>>

\* a heartbeat is emitted on a link opened by a reconnect
C29_Witness ==
  /\ HeartbeatEmitted
  /\ agent.dials = 0
  /\ agent.isRegistered

(* ---------------------------------- C30 ------------------------------- *)
\* the relay has handled a register frame
Registered ==
  /\ RelayHasReceived /\ call.in.size <= maxPayload
  /\ call.in.data.parsable /\ call.in.data.message.type = "register"

\* the id the agent supplied, or the minted one when the frame carried none
IdOf(message) ==
  IF message.clientId \in ClientIds THEN message.clientId ELSE MintedId

C31_CountIsRequestsDispatched ==
  \A i \in 1..Len(clients) : clients[i].requestCount = clients[i].dispatched

\* a record has been handed a request that has since been completed
C31_Witness ==
  \E r \in 1..nextReq :
    /\ dispatchedTo[r] # NotDispatched
    /\ HasClient(clients, dispatchedTo[r].clientId)
    /\ getClient(clients, dispatchedTo[r].clientId).requestCount = 1
    /\ r \notin DOMAIN pendingRequests
    /\ completed[r] # <<>>

(* =============== properties: the agent's choice of target ============= *)
\* the agent has handled a request frame whose payload carries a path
RequestHandled ==
  /\ call.op = "onRequest" /\ call.done
  /\ call.in.frame.payload.present
  /\ call.in.frame.payload.path # Undefined

\* CONFIG.MAPPINGS of an agent configured with the given targets
activeMappings(targets) ==
  SelectSeq(<<ClientMapping(<<"a", "b">>, TargetOf(<<"a", "b">>)),
              ClientMapping(<<"a">>, TargetOf(<<"a">>)),
              ClientMapping(<<"b">>, TargetOf(<<"b">>))>>,
            LAMBDA m : m.target \in targets)

\* the annotation of the frame names a target the agent is configured with
Annotated ==
  /\ call.in.frame.payload.targetMapping # "none"
  /\ call.in.frame.payload.targetMapping \in DOMAIN httpClients(call.in.targets)

NotConnectedAnswered ==
  \E r \in ReqIds, id \in ClientIds :
    \/ httpResp[r].message = NotConnectedMessage(id)
    \/ httpResp[r].error = NotConnectedMessage(id)

\* C33: every record of the registry has connected = TRUE, so that getStats
\* reports as many connected clients as clients and no request is refused
\* with "... is not connected".
C33_StoredRecordsConnected ==
  /\ \A i \in 1..Len(clients) : clients[i].connected
  /\ getStats(RelayState).totalClients = getStats(RelayState).connectedClients
  /\ ~NotConnectedAnswered

\* a record has been unregistered by a displacement, and a request has been
\* dispatched to the record that took its place while another link closed
C33_Witness ==
  /\ \E i \in 1..Len(clients) : clients[i].took # 0
  /\ \E l \in Links : wsState[l] = "CLOSED"
  /\ \E r \in 1..nextReq :
       /\ dispatchedTo[r] # NotDispatched
       /\ HasClient(clients, dispatchedTo[r].clientId)

(* ============ properties: frames and the link they arrive on ========== *)
\* the relay has handled a frame of the given kind
FrameHandled(kind) ==
  /\ RelayHasReceived /\ call.in.size <= maxPayload
  /\ call.in.data.parsable /\ call.in.data.message.type = kind

\* C34: a heartbeat frame refreshes lastHeartbeat only of a record bound to
\* the link it arrived on: every record bound to another link keeps its
\* lastHeartbeat, whatever clientId the frame names.
C34_HeartbeatRefreshesOwnLinkOnly ==
  FrameHandled("heartbeat") =>
    \A i \in 1..Len(call.in.state.clients) :
      LET rec == call.in.state.clients[i]
      IN rec.ws # call.in.ws =>
           /\ HasClient(call.out.state.clients, rec.id)
           /\ getClient(call.out.state.clients, rec.id).lastHeartbeat
                = rec.lastHeartbeat

\* a response or error frame that arrives on a link other than the one the
\* request it names was sent on leaves the request in the pending table
C35_OtherLinkLeavesPending ==
  pendingRequests' # pendingRequests /\ nextReq' = nextReq =>
    \A l \in Links : \A r \in DOMAIN pendingRequests :
      dispatchedTo[r].ws # l =>
        /\ \A m \in Inbound(l, "response") :
             m.id = r /\ handleResponse(l, m) => r \in DOMAIN pendingRequests'
        /\ \A m \in Inbound(l, "error") :
             m.id = r /\ handleError(l, m) => r \in DOMAIN pendingRequests'

\* C35: a request pending for an agent is completed by a response or error
\* frame only when the frame arrives on that agent's link: a frame with the
\* id of the request that arrives on any other link, registered or not,
\* leaves the request pending.
C35_OnlyOwnLinkCompletes == [][C35_OtherLinkLeavesPending]_vars

(* ================= properties: the agent's disconnect ================= *)
\* C36: once disconnect() has been called the agent stays down: it has no
\* socket, no reconnect timer and no heartbeat timer is pending, also after
\* the socket it closed has emitted its 'close' event.
C36_DisconnectStaysDown ==
  agent.stopped =>
    /\ agent.ws = "null"
    /\ agent.timeouts = <<>> /\ ~agent.reconnectTimer
    /\ agent.intervals = <<>> /\ ~agent.heartbeatTimer

(* ============== properties: displacement and the old link ============= *)
\* when a link closes or errors, a record that took its id over from that
\* link stays in the registry as it is, and the requests sent to that record
\* stay pending
C37_NewRecordKeepsRequests ==
  clients' # clients \/ pendingRequests' # pendingRequests =>
    \A l \in Links : \A i \in 1..Len(clients) :
      LET rec == clients[i] IN
      /\ OnClose(l) \/ OnSocketError(l)
      /\ rec.took = l /\ rec.ws # l
      => /\ HasClient(clients', rec.id)
         /\ getClient(clients', rec.id) = rec
         /\ \A r \in DOMAIN pendingRequests :
              dispatchedTo[r].clientId = rec.id /\ dispatchedTo[r].ws = rec.ws
                => r \in DOMAIN pendingRequests'

\* C37: after a displacement the late close or error event of the displaced
\* link leaves the record registered by the new link in the registry and
\* leaves the requests pending for it pending.
C37_LateCloseOfOldLinkHarmless == [][C37_NewRecordKeepsRequests]_vars

(* ================= properties: records and their links ================ *)
\* C38: no two records of the registry are bound to the same link, and no
\* record is bound to a link whose close event has been handled.
C38_OneRecordPerLinkNoneAfterClose ==
  /\ \A i, j \in 1..Len(clients) : i # j => clients[i].ws # clients[j].ws
  /\ \A l \in Links :
       wsState[l] = "CLOSED" => \A i \in 1..Len(clients) : clients[i].ws # l

(* ============== properties: a record removed, its link open =========== *)
\* some record is bound to link l
Bound(l) == \E i \in 1..Len(clients) : clients[i].ws = l

\* link l is open and has lost its record to a registration on another
\* link: the relay holds no record for it
Orphaned(l) ==
  /\ wsState[l] = "OPEN"
  /\ ~Bound(l)
  /\ \E i \in 1..Len(clients) : clients[i].took = l /\ clients[i].ws # l

\* C39: a link that is open and whose record was taken away by a
\* displacement does not stay so forever: eventually the relay closes the
\* link (or it closes otherwise), or a record is registered on it again.
C39_OrphanedLinkRecovers ==
  \A l \in Links : Orphaned(l) ~> (wsState[l] # "OPEN" \/ Bound(l))

(* ================ properties: the heartbeat exchange ================== *)
\* the heartbeat frames the exchange started with have caused at most two
\* further frames each
C40_Bounded == call.frames <= 3 * call.first

\* no frame is on the wire: the last one was consumed without a reply
C40_Settled == call.wire = <<>>

\* C40: the heartbeat exchange terminates: a heartbeat frame of the relay or
\* of the agent causes at most two further frames on the link, and
\* eventually a frame is consumed without a reply and the wire is empty.
C40_HeartbeatExchangeTerminates == []C40_Bounded /\ <>[]C40_Settled

\* a heartbeat of the relay has been answered by the agent's heartbeat, that
\* by the relay's pong, and the agent has consumed the pong
C40_Witness ==
  /\ call.origin = "relay"
  /\ call.first = 1
  /\ call.frames = 3
  /\ call.wire = <<>>
  /\ getClient(call.relay.clients, configClientId).lastHeartbeat = HandlerNow

====
